---------------------------- MODULE Spec2Model ----------------------------
(***************************************************************************)
(* Model of the statistical engine of Fullstack-Analytics:                 *)
(*   TSMT$DataFrame     (src/server/lib/Spcfcn.js, second part)            *)
(*   TSMT$DataStats     (src/unnamed/part_003)                             *)
(*   TSMT$FrameStats    (src/server/lib/FrameStats.js)                     *)
(*   TSMT$TableAnalysis (src/server/lib/TableAnalysis.js)                  *)
(*                                                                         *)
(* JavaScript numbers are modelled as exact values: a number is a record   *)
(* [k, n, d, r].  k = "fin" is the real sign(n) * (|n|/d)^(1/r) (r = 1: a  *)
(* rational in lowest terms, r = 2: a signed square root, ...).  The other *)
(* kinds are the values a double or a JS expression can also take: "nan",  *)
(* "undef" (undefined), "inf", "ninf", "eps" (Number.MIN_VALUE), "max"     *)
(* (Number.MAX_VALUE) and "nmax" (-Number.MAX_VALUE).  Rounding is not     *)
(* modelled.  An operation on a combination of kinds the engine never      *)
(* produces has no case here, so TLC stops rather than invent a value.     *)
(***************************************************************************)
EXTENDS Integers, Sequences, FiniteSets, TLC

\* ------------------------------------------------------------------ bounds
MaxRows == 2
MaxCols == 2
MaxLen == 2
MaxAssign == 2
MaxCalls == 3
MaxNu == 3
MaxFive == 4

\* ----------------------------------------------------------------- numbers
Abs(i) == IF i < 0 THEN 0 - i ELSE i

Sgn(i) == IF i < 0 THEN 0 - 1 ELSE IF i = 0 THEN 0 ELSE 1

RECURSIVE GCD(_, _)
GCD(a, b) == IF b = 0 THEN a ELSE GCD(b, a % b)

\* the rational n/d in lowest terms, d > 0
Q(n, d) ==
  LET g == GCD(Abs(n), Abs(d))
  IN  [k |-> "fin", n |-> (Sgn(d) * n) \div g, d |-> Abs(d) \div g, r |-> 1]

I(i) == Q(i, 1)

Special(kind) == [k |-> kind, n |-> 0, d |-> 1, r |-> 1]

NaN == Special("nan")

Undefined == Special("undef")

PosInf == Special("inf")

NegInf == Special("ninf")

MIN_VALUE == Special("eps")

MAX_VALUE == Special("max")

NEG_MAX_VALUE == Special("nmax")

IsNaNKind(a) == a.k \in {"nan", "undef"}

\* Number(x) == x, isNaN(x): true for NaN and for undefined
isNaN(a) == IsNaNKind(a)

\* position of the non-rational kinds on the number line
Ord(kind) ==
  CASE kind = "ninf" -> 0 [] kind = "nmax" -> 1 [] kind = "eps" -> 2
    [] kind = "max" -> 3 [] kind = "inf" -> 4

\* a < b of JavaScript (false when either side is NaN or undefined)
Lt(a, b) ==
  IF IsNaNKind(a) \/ IsNaNKind(b) THEN FALSE
  ELSE IF a.k = "fin" /\ b.k = "fin" THEN
         IF a.r = 1 /\ b.r = 1 THEN
           \* the integer parts decide, or else the fractional parts
           IF a.n \div a.d # b.n \div b.d THEN a.n \div a.d < b.n \div b.d
           ELSE (a.n % a.d) * b.d < (b.n % b.d) * a.d
         ELSE IF a.r = b.r THEN
                \* same root degree: compare sign, then the radicands
                IF Sgn(a.n) # Sgn(b.n) THEN Sgn(a.n) < Sgn(b.n)
                ELSE a.n * b.d < b.n * a.d
         ELSE Sgn(a.n) < Sgn(b.n)
  ELSE IF a.k = "fin" THEN b.k \in {"inf", "max"} \/ (b.k = "eps" /\ a.n <= 0)
  ELSE IF b.k = "fin" THEN a.k \in {"ninf", "nmax"} \/ (a.k = "eps" /\ b.n > 0)
  ELSE Ord(a.k) < Ord(b.k)

Gt(a, b) == Lt(b, a)

Neg(a) ==
  CASE IsNaNKind(a) -> NaN
    [] a.k = "fin" -> [a EXCEPT !.n = 0 - a.n]
    [] a.k = "inf" -> NegInf
    [] a.k = "ninf" -> PosInf
    [] a.k = "max" -> NEG_MAX_VALUE
    [] a.k = "nmax" -> MAX_VALUE

\* a + b
Add(a, b) ==
  CASE IsNaNKind(a) \/ IsNaNKind(b) -> NaN
    [] a.k = "fin" /\ b.k = "fin" /\ a.r = 1 /\ b.r = 1 ->
         Q(a.n * b.d + b.n * a.d, a.d * b.d)
    [] a.k = "inf" /\ b.k = "ninf" -> NaN
    [] a.k = "ninf" /\ b.k = "inf" -> NaN
    [] a.k \in {"inf", "ninf"} /\ b.k \notin {"inf", "ninf"} -> a
    [] b.k \in {"inf", "ninf"} /\ a.k \notin {"inf", "ninf"} -> b
    [] a.k = "inf" /\ b.k = "inf" -> a
    [] a.k = "ninf" /\ b.k = "ninf" -> a
    \* Number.MIN_VALUE is absorbed by any other double but zero
    [] a.k = "eps" /\ b.k = "fin" /\ b.r = 1 -> IF b.n = 0 THEN a ELSE b
    [] b.k = "eps" /\ a.k = "fin" /\ a.r = 1 -> IF a.n = 0 THEN b ELSE a
    \* Number.MAX_VALUE absorbs the small values of the model
    [] a.k \in {"max", "nmax"} /\ b.k = "fin" -> a
    [] b.k \in {"max", "nmax"} /\ a.k = "fin" -> b
    [] a.k = "max" /\ b.k = "max" -> PosInf
    [] a.k = "nmax" /\ b.k = "nmax" -> NegInf

Sub(a, b) == Add(a, Neg(b))

IntPow(c, r) == IF r = 1 THEN c ELSE IF r = 2 THEN c * c ELSE IF r = 3 THEN c * c * c ELSE c * c * c * c

RECURSIVE IntRoot(_, _, _)
\* the largest integer at or above c whose r-th power is at most m  (m >= 0)
IntRoot(m, r, c) == IF IntPow(c + 1, r) > m THEN c ELSE IntRoot(m, r, c + 1)

IsPower(m, r) == IntPow(IntRoot(m, r, 0), r) = m

\* sign(n) * (|n|/d)^(1/r) in canonical form: a rational when it is one
Root(n, d, r) ==
  LET g == GCD(Abs(n), Abs(d))
      nn == (Sgn(d) * n) \div g
      dd == Abs(d) \div g
  IN  IF r = 1 \/ nn = 0 THEN Q(nn, dd)
      ELSE IF IsPower(Abs(nn), r) /\ IsPower(dd, r)
             THEN Q(Sgn(nn) * IntRoot(Abs(nn), r, 0), IntRoot(dd, r, 0))
      ELSE IF r = 4 /\ IsPower(Abs(nn), 2) /\ IsPower(dd, 2)
             THEN [k |-> "fin", n |-> Sgn(nn) * IntRoot(Abs(nn), 2, 0),
                   d |-> IntRoot(dd, 2, 0), r |-> 2]
      ELSE [k |-> "fin", n |-> nn, d |-> dd, r |-> r]

\* a finite value as a signed square root: sign(n) * sqrt(|n|/d)
AsSqrtN(a) == IF a.r = 2 THEN a.n ELSE Sgn(a.n) * a.n * a.n

AsSqrtD(a) == IF a.r = 2 THEN a.d ELSE a.d * a.d

\* a * b
Mul(a, b) ==
  CASE IsNaNKind(a) \/ IsNaNKind(b) -> NaN
    [] a.k = "fin" /\ b.k = "fin" /\ a.r = 1 /\ b.r = 1 -> Q(a.n * b.n, a.d * b.d)
    [] a.k = "fin" /\ b.k = "fin" /\ (a.r = 2 \/ b.r = 2) /\ a.r <= 2 /\ b.r <= 2 ->
         Root(Sgn(a.n) * Sgn(b.n) * Abs(AsSqrtN(a)) * Abs(AsSqrtN(b)),
              AsSqrtD(a) * AsSqrtD(b), 2)
    [] a.k \in {"inf", "ninf"} /\ b.k = "fin" ->
         IF b.n = 0 THEN NaN ELSE IF (b.n > 0) = (a.k = "inf") THEN PosInf ELSE NegInf
    [] b.k \in {"inf", "ninf"} /\ a.k = "fin" ->
         IF a.n = 0 THEN NaN ELSE IF (a.n > 0) = (b.k = "inf") THEN PosInf ELSE NegInf
    [] a.k \in {"inf", "ninf"} /\ b.k \in {"inf", "ninf"} ->
         IF a.k = b.k THEN PosInf ELSE NegInf

\* 1 / a
Inv(a) ==
  CASE IsNaNKind(a) -> NaN
    [] a.k = "fin" /\ a.n = 0 -> PosInf
    [] a.k = "fin" /\ a.n # 0 -> [a EXCEPT !.n = Sgn(a.n) * a.d, !.d = Abs(a.n)]
    [] a.k \in {"inf", "ninf"} -> I(0)
    \* 1 / Number.MIN_VALUE overflows
    [] a.k = "eps" -> PosInf

\* a / b
Div(a, b) ==
  CASE IsNaNKind(a) \/ IsNaNKind(b) -> NaN
    [] a.k = "fin" /\ b.k = "fin" /\ b.n # 0 -> Mul(a, Inv(b))
    [] a.k = "fin" /\ b.k = "fin" /\ b.n = 0 ->
         IF a.n = 0 THEN NaN ELSE IF a.n > 0 THEN PosInf ELSE NegInf
    [] a.k = "fin" /\ b.k \in {"inf", "ninf"} -> I(0)
    [] a.k \in {"inf", "ninf"} /\ b.k = "fin" ->
         IF (b.n >= 0) = (a.k = "inf") THEN PosInf ELSE NegInf
    [] a.k \in {"inf", "ninf"} /\ b.k \in {"inf", "ninf"} -> NaN

\* Math.sqrt(a)
Sqrt(a) ==
  CASE IsNaNKind(a) -> NaN
    [] a.k = "fin" /\ a.r = 1 -> IF a.n < 0 THEN NaN ELSE Root(a.n, a.d, 2)
    [] a.k = "inf" -> PosInf
    [] a.k = "ninf" -> NaN

Half == Q(1, 2)


\* Math.floor: of a rational, the integer below it; a double of another kind is an
\* integer, infinite or NaN already
Floor(a) == IF a.k = "fin" /\ a.r = 1 THEN Q(a.n \div a.d, 1) ELSE IF a.k = "undef" THEN NaN ELSE a

\* Math.abs
MathAbs(a) ==
  CASE IsNaNKind(a) -> NaN
    [] a.k = "fin" -> [a EXCEPT !.n = Abs(a.n)]
    [] a.k \in {"inf", "ninf"} -> PosInf
    [] a.k = "eps" -> a

\* parseInt(x.toString()) of a number written in plain decimal notation:
\* the digits before the decimal point, i.e. truncation toward zero
ParseIntOfToString(a) ==
  CASE a.k = "fin" /\ a.r = 1 -> I(Sgn(a.n) * (Abs(a.n) \div a.d))
    [] IsNaNKind(a) -> NaN

\* Math.pow(s, 1/n) for n >= 1: NaN for a negative base and a fractional exponent
PowInv(s, n) ==
  CASE IsNaNKind(s) -> NaN
    [] s.k = "fin" /\ s.r = 1 ->
         IF n = 1 THEN s ELSE IF s.n < 0 THEN NaN ELSE Root(s.n, s.d, n)

\* ------------------------------------------------------------- sequences
RECURSIVE Insert(_, _)
\* x placed into the ascending sequence srt, after the elements not above it
Insert(x, srt) ==
  IF srt = <<>> THEN <<x>>
  ELSE IF Lt(x, Head(srt)) THEN <<x>> \o srt
  ELSE <<Head(srt)>> \o Insert(x, Tail(srt))

RECURSIVE SortAsc(_)
\* data.sort(function (a, b) { return a - b; }) on numbers
SortAsc(data) ==
  IF data = <<>> THEN <<>>
  ELSE Insert(data[Len(data)], SortAsc(SubSeq(data, 1, Len(data) - 1)))

\* Array.prototype.indexOf, 0-based, -1 when absent
IndexOf(arr, x) ==
  IF \E i \in 1..Len(arr) : arr[i] = x
    THEN (CHOOSE i \in 1..Len(arr) : arr[i] = x /\ \A j \in 1..(i - 1) : arr[j] # x) - 1
    ELSE 0 - 1

\* arr.splice(index, 1) with a 0-based index >= 0: nothing is removed past the end
Splice1(arr, index) ==
  IF index >= Len(arr) THEN arr
  ELSE [i \in 1..(Len(arr) - 1) |-> IF i <= index THEN arr[i] ELSE arr[i + 1]]

\* arr.slice(from, to) with 0-based bounds, to exclusive
Slice(arr, from, to) ==
  LET t == IF to > Len(arr) THEN Len(arr) ELSE to
  IN  IF from >= t THEN <<>> ELSE [i \in 1..(t - from) |-> arr[from + i]]

RECURSIVE Distinct(_)
\* the distinct elements of arr, in order of first occurrence
Distinct(arr) ==
  IF arr = <<>> THEN <<>>
  ELSE LET front == Distinct(SubSeq(arr, 1, Len(arr) - 1))
           x == arr[Len(arr)]
       IN  IF \E i \in 1..Len(front) : front[i] = x THEN front ELSE Append(front, x)

Occurrences(arr, x) == Cardinality({i \in 1..Len(arr) : arr[i] = x})

\* -------------------------------------------------------------- DataStats
\* new TSMT$DataStats()
NewDataStats ==
  [_data |-> <<>>, _mean |-> I(0), _std |-> I(0), _median |-> I(0), _mode |-> I(0),
   _min |-> I(0), _max |-> I(0),
   _minInvalidated |-> TRUE, _maxInvalidated |-> TRUE, _meanInvalidated |-> TRUE,
   _stdInvalidated |-> TRUE, _medianInvalidated |-> TRUE, _modeInvalidated |-> TRUE]

isEven(n) == n % 2 = 0

\* set data(dataProvider) dropping the held data when handed an empty provider
SetDataEmptying(s, dataProvider) ==
  [s EXCEPT !._data = dataProvider,
            !._minInvalidated = TRUE, !._maxInvalidated = TRUE,
            !._meanInvalidated = TRUE, !._stdInvalidated = TRUE,
            !._medianInvalidated = TRUE, !._modeInvalidated = TRUE]

\* set data(dataProvider) with the std flag left as it was set by the last read
SetDataBuggy(s, dataProvider) ==
  IF dataProvider = <<>> THEN s
  ELSE [s EXCEPT !._data = dataProvider,
                 !._minInvalidated = TRUE, !._maxInvalidated = TRUE,
                 !._meanInvalidated = TRUE,
                 !._medianInvalidated = TRUE, !._modeInvalidated = TRUE]

\* set data(dataProvider).  An absent provider (undefined, null) takes the same early
\* return as an empty one; both are the empty sequence here.
SetData(s, dataProvider) ==
  IF dataProvider = <<>> THEN s
  ELSE [s EXCEPT !._data = dataProvider,
                 !._minInvalidated = TRUE, !._maxInvalidated = TRUE,
                 !._meanInvalidated = TRUE, !._stdInvalidated = TRUE,
                 !._medianInvalidated = TRUE, !._modeInvalidated = TRUE]

RECURSIVE ScanMin(_, _, _)
\* the loop of the min getter from index i (1-based) on
ScanMin(data, i, min) ==
  IF i > Len(data) THEN min
  ELSE ScanMin(data, i + 1, IF Lt(data[i], min) THEN data[i] ELSE min)

RECURSIVE ScanMax(_, _, _)
ScanMax(data, i, max) ==
  IF i > Len(data) THEN max
  ELSE ScanMax(data, i + 1, IF Gt(data[i], max) THEN data[i] ELSE max)

\* Each getter is [s |-> the instance after the read, v |-> the value returned].
GetMin(s) ==
  IF Len(s._data) = 0 THEN [s |-> s, v |-> I(0)]
  ELSE IF s._minInvalidated
         THEN LET min == ScanMin(s._data, 1, MAX_VALUE)
              IN  [s |-> [s EXCEPT !._min = min], v |-> min]
  ELSE [s |-> s, v |-> s._min]

GetMax(s) ==
  IF Len(s._data) = 0 THEN [s |-> s, v |-> I(0)]
  ELSE IF s._maxInvalidated
         THEN LET max == ScanMax(s._data, 1, MIN_VALUE)
              IN  [s |-> [s EXCEPT !._max = max], v |-> max]
  ELSE [s |-> s, v |-> s._max]

\* median of an ascending sequence of n >= 1 numbers, as all three places compute it
MedianSorted(tmp) ==
  LET n == Len(tmp)
  IN  IF isEven(n) THEN Mul(Half, Add(tmp[n \div 2], tmp[n \div 2 + 1]))
      ELSE tmp[(n + 1) \div 2]

\* get fiveNumbers with the median left out of both halves of an odd number of data
FiveNumbersApart(s) ==
  LET n == Len(s._data)
      data == SortAsc(s._data)
      m == IF isEven(n) THEN n \div 2 - 1 ELSE (n + 1) \div 2 - 1
      lower == IF isEven(n) THEN Slice(data, 0, m + 1) ELSE Slice(data, 0, m)
      upper == Slice(data, m + 1, n)
  IN  IF n = 0 THEN <<>>
      ELSE IF n = 1 THEN <<s._data[1], s._data[1], s._data[1], s._data[1], s._data[1]>>
      ELSE <<data[1], MedianSorted(lower), MedianSorted(data), MedianSorted(upper), data[n]>>

\* get fiveNumbers
FiveNumbers(s) ==
  LET n == Len(s._data)
      data == SortAsc(s._data)
      m == IF isEven(n) THEN n \div 2 - 1 ELSE (n + 1) \div 2 - 1
      dataMed == MedianSorted(data)
      lower == IF isEven(n) THEN Slice(data, 0, m + 1)
               ELSE Append(Slice(data, 0, m), dataMed)
      upper == IF isEven(n) THEN Slice(data, m + 1, n)
               ELSE <<dataMed>> \o Slice(data, m + 1, n)
  IN  IF n = 0 THEN <<>>
      ELSE IF n = 1 THEN <<s._data[1], s._data[1], s._data[1], s._data[1], s._data[1]>>
      ELSE <<data[1], MedianSorted(lower), dataMed, MedianSorted(upper), data[n]>>

\* num[i] of a JS array, 0-based: undefined outside the array
At(arr, i) == IF i >= 0 /\ i < Len(arr) THEN arr[i + 1] ELSE Undefined

OneAndHalf == Q(3, 2)

\* { lower: q1 - 1.5*iqr, upper: q3 + 1.5*iqr } from a five-number array
FencesOf(num) ==
  LET q1 == At(num, 1)
      q3 == At(num, 3)
      iqr == Sub(q3, q1)
  IN  [lower |-> Sub(q1, Mul(OneAndHalf, iqr)), upper |-> Add(q3, Mul(OneAndHalf, iqr))]

RECURSIVE SumFrom(_, _, _)
\* s += data[i] for the remaining indices
SumFrom(data, i, acc) ==
  IF i > Len(data) THEN acc ELSE SumFrom(data, i + 1, Add(acc, data[i]))

GetMean(s) ==
  IF s._meanInvalidated
    THEN LET n == Len(s._data)
         IN  IF n = 0 THEN [s |-> s, v |-> I(0)]
             ELSE LET mean == Div(SumFrom(s._data, 2, s._data[1]), I(n))
                  IN  [s |-> [s EXCEPT !._mean = mean, !._meanInvalidated = FALSE],
                       v |-> mean]
    ELSE [s |-> s, v |-> s._mean]

RECURSIVE Welford(_, _, _, _)
\* the loop of the std getter: i is 1-based, m the running mean, acc the running sum
Welford(data, i, m, acc) ==
  IF i > Len(data) THEN acc
  ELSE LET d == Sub(data[i], m)
           m2 == Add(m, Div(d, I(i)))
       IN  Welford(data, i + 1, m2, Add(acc, Mul(Sub(data[i], m2), d)))

GetStd(s) ==
  IF s._stdInvalidated
    THEN LET n == Len(s._data)
         IN  IF n = 1 THEN [s |-> s, v |-> I(0)]
             ELSE LET std == Sqrt(Div(Welford(s._data, 1, I(0), I(0)), I(n - 1)))
                  IN  [s |-> [s EXCEPT !._std = std, !._stdInvalidated = FALSE], v |-> std]
    ELSE [s |-> s, v |-> s._std]

GetMedian(s) ==
  IF s._medianInvalidated
    THEN LET n == Len(s._data)
         IN  IF n = 0 THEN [s |-> s, v |-> I(0)]
             ELSE LET median == MedianSorted(SortAsc(s._data))
                  IN  [s |-> [s EXCEPT !._median = median, !._medianInvalidated = FALSE],
                       v |-> median]
    ELSE [s |-> s, v |-> s._median]

IsArrayIndexKey(a) == a.k = "fin" /\ a.r = 1 /\ a.d = 1 /\ a.n >= 0

\* for (value in hash): integer-like keys ascending, then the others as inserted
HashKeyOrder(data) ==
  LET keys == Distinct(data)
  IN  SortAsc(SelectSeq(keys, IsArrayIndexKey))
        \o SelectSeq(keys, LAMBDA a : ~IsArrayIndexKey(a))

RECURSIVE ModeScan(_, _, _, _, _)
\* the for-in loop of the mode getter
ModeScan(data, keys, i, count, mode) ==
  IF i > Len(keys) THEN mode
  ELSE LET c == Occurrences(data, keys[i])
       IN  IF c > count THEN ModeScan(data, keys, i + 1, c, ParseIntOfToString(keys[i]))
           ELSE ModeScan(data, keys, i + 1, count, mode)

GetMode(s) ==
  IF s._modeInvalidated
    THEN LET n == Len(s._data)
         IN  IF n = 0 THEN [s |-> s, v |-> I(0)]
             ELSE LET mode == ModeScan(s._data, HashKeyOrder(s._data), 1, 0 - 1, s._mode)
                  IN  [s |-> [s EXCEPT !._mode = mode, !._modeInvalidated = FALSE],
                       v |-> mode]
    ELSE [s |-> s, v |-> s._mode]


RECURSIVE FracIndex(_, _)
\* f[i] of getQuantile (0-based): f[0] = 0, f[i] = f[i-1] + 1/(n-1), and 1 pushed last
FracIndex(n, i) ==
  IF i >= n THEN Undefined
  ELSE IF i = n - 1 THEN I(1)
  ELSE IF i = 0 THEN I(0)
  ELSE Add(FracIndex(n, i - 1), Div(I(1), I(n - 1)))

QuantileTol == Q(1, 1000)

\* one pass of the loop of getQuantile at the level q: the value pushed
QuantileAt(data, q) ==
  LET n == Len(data)
      r == Floor(Mul(q, I(n - 1))).n
      fr == FracIndex(n, r)
      t == Div(Sub(q, fr), Sub(FracIndex(n, r + 1), fr))
      interp == Add(Mul(Sub(I(1), t), At(data, r)), Mul(t, At(data, r + 1)))
  IN  IF Lt(MathAbs(Sub(fr, q)), QuantileTol) THEN At(data, r) ELSE interp

\* the loop computing the nQuant-1 inner quantiles: pass i (from 1) runs at the level
\* q = i * p, the value of q after i additions of p
QuantileLoop(data, p, nQuant) ==
  [i \in 1..(nQuant - 1) |-> QuantileAt(data, Mul(I(i), p))]

\* getQuantile(_p) keeping a p below 0.01 as it was given
GetQuantileUnsanitized(s, _p) ==
  LET p == IF isNaN(_p) \/ Gt(_p, Q(99, 100)) THEN Q(1, 4) ELSE _p
      n == Len(s._data)
      nQuant == Floor(Div(I(1), p)).n
      data == SortAsc(s._data)
  IN  IF n < 2 THEN <<>>
      ELSE <<data[1]>> \o QuantileLoop(data, p, nQuant) \o <<data[n]>>

\* getQuantile(_p)
GetQuantile(s, _p) ==
  LET p == IF isNaN(_p) \/ Lt(_p, Q(1, 100)) \/ Gt(_p, Q(99, 100)) THEN Q(1, 4) ELSE _p
      n == Len(s._data)
      nQuant == Floor(Div(I(1), p)).n
      data == SortAsc(s._data)
  IN  IF n < 2 THEN <<>>
      ELSE <<data[1]>> \o QuantileLoop(data, p, nQuant) \o <<data[n]>>

RECURSIVE ProdFrom(_, _, _)
ProdFrom(data, i, acc) ==
  IF i > Len(data) THEN acc ELSE ProdFrom(data, i + 1, Mul(acc, data[i]))

\* get geometricMean
GeometricMean(s) ==
  LET n == Len(s._data)
  IN  IF n = 0 THEN I(0) ELSE PowInv(ProdFrom(s._data, 2, s._data[1]), n)

\* the reciprocal of the tolerance 0.000000001 of harmonicMean
HarmonicTolInv == 1000000000

\* Math.abs(x) > 0.000000001; for a rational n/d this is |n| > d / 10^9, which for
\* integers is |n| > floor(d / 10^9)
AboveHarmonicTol(x) ==
  IF x.k = "fin" /\ x.r = 1 THEN Abs(x.n) > x.d \div HarmonicTolInv
  ELSE Gt(MathAbs(x), Q(1, HarmonicTolInv))

Reciprocal(x) == IF AboveHarmonicTol(x) THEN Div(I(1), x) ELSE I(0)

RECURSIVE RecipSumFrom(_, _, _)
RecipSumFrom(data, i, acc) ==
  IF i > Len(data) THEN acc ELSE RecipSumFrom(data, i + 1, Add(acc, Reciprocal(data[i])))

\* get harmonicMean
HarmonicMean(s) ==
  LET n == Len(s._data)
  IN  IF n = 0 THEN I(0)
      ELSE Div(I(n), RecipSumFrom(s._data, 2, Reciprocal(s._data[1])))

\* z*z*z and z*z*z*z
PowOf(z, e) == IF e = 3 THEN Mul(Mul(z, z), z) ELSE Mul(Mul(Mul(z, z), z), z)

RECURSIVE PowSumFrom(_, _, _, _, _)
\* s1 += z^e with z = data[i] - u
PowSumFrom(data, u, e, i, acc) ==
  IF i > Len(data) THEN acc
  ELSE PowSumFrom(data, u, e, i + 1, Add(acc, PowOf(Sub(data[i], u), e)))

\* get skewness
\* mult * skew with mult = sqrt(n(n-1))/(n-2) and skew = (s1/n) / std^3
SkewnessOf(n, s1, std) ==
  Mul(Div(Sqrt(I(n * (n - 1))), I(n - 2)), Div(Div(s1, I(n)), PowOf(std, 3)))

\* skewness once mu = this.mean and sd = this.std are read
SkewnessWith(data, mu, sd) ==
  [s |-> sd.s, v |-> SkewnessOf(Len(data), PowSumFrom(data, mu, 3, 1, I(0)), sd.v)]

SkewnessAfterMean(data, mu) == SkewnessWith(data, mu.v, GetStd(mu.s))

GetSkewness(s) ==
  IF Len(s._data) < 3 THEN [s |-> s, v |-> I(0)]
  ELSE SkewnessAfterMean(s._data, GetMean(s))

\* get kurtosis
\* a - b with a = n(n+1) s1 / ((n-1)(n-2)(n-3) std^4), b = 3(n-1)^2 / ((n-2)(n-3))
KurtosisOf(n, s1, std) ==
  Sub(Div(Mul(I(n * (n + 1)), s1), Mul(I((n - 1) * (n - 2) * (n - 3)), PowOf(std, 4))),
      Div(I(3 * (n - 1) * (n - 1)), I((n - 2) * (n - 3))))

\* kurtosis once mu = this.mean and sd = this.std are read
KurtosisWith(data, mu, sd) ==
  [s |-> sd.s, v |-> KurtosisOf(Len(data), PowSumFrom(data, mu, 4, 1, I(0)), sd.v)]

KurtosisAfterMean(data, mu) == KurtosisWith(data, mu.v, GetStd(mu.s))

GetKurtosis(s) ==
  IF Len(s._data) < 4 THEN [s |-> s, v |-> I(0)]
  ELSE KurtosisAfterMean(s._data, GetMean(s))

RECURSIVE CrossSumFrom(_, _, _, _, _, _)
CrossSumFrom(x, y, xmean, ymean, i, acc) ==
  IF i > Len(x) THEN acc
  ELSE CrossSumFrom(x, y, xmean, ymean, i + 1,
                    Add(acc, Mul(Sub(x[i], xmean), Sub(y[i], ymean))))

\* covariance(x, y) on arrays (an absent array is the empty sequence here)
\* covariance once xmean and my (the read of ymean) are known
CovarianceWith(x, y, xmean, my) ==
  [s |-> my.s, v |-> Div(CrossSumFrom(x, y, xmean, my.v, 1, I(0)), I(Len(x) - 1))]

CovarianceAfterX(x, y, mx) == CovarianceWith(x, y, mx.v, GetMean(SetData(mx.s, y)))

Covariance(s, x, y) ==
  IF Len(x) < 2 \/ Len(x) # Len(y) THEN [s |-> s, v |-> I(0)]
  ELSE CovarianceAfterX(x, y, GetMean(SetData(s, x)))

\* correlation(x, y)
\* cov / (xstd * ystd)
CorrelationOf(xstd, ystd, cov) == [s |-> cov.s, v |-> Div(cov.v, Mul(xstd, ystd))]

CorrelationWith(x, y, xstd, sy) == CorrelationOf(xstd, sy.v, Covariance(sy.s, x, y))

CorrelationAfterX(x, y, sx) == CorrelationWith(x, y, sx.v, GetStd(SetData(sx.s, y)))

Correlation(s, x, y) ==
  IF Len(x) < 2 \/ Len(x) # Len(y) THEN [s |-> s, v |-> I(0)]
  ELSE CorrelationAfterX(x, y, GetStd(SetData(s, x)))


\* -------------------------------------------------------------- DataFrame
NUMERIC == 0

CHARACTER == 1

BOOLEAN_TYPE == 2

\* new TSMT$DataFrame()
NewDataFrame ==
  [_table |-> <<>>, _categories |-> <<>>, _types |-> <<>>, _column |-> <<>>,
   _category |-> ""]

\* __clear() without its last two lines: the cached category and column stay
ClearKeepsCache(f) == [NewDataFrame EXCEPT !._category = f._category, !._column = f._column]

\* __clear()
Clear(f) == NewDataFrame

\* Every operation is [f |-> the frame after the call, threw |-> whether the call
\* ended in a TypeError, v |-> the value returned (<<>> when it threw)].
Returned(f, v) == [f |-> f, threw |-> FALSE, v |-> v]

Thrown(f) == [f |-> f, threw |-> TRUE, v |-> <<>>]

\* keys with '_id' and then 'id' spliced out
StripIds(keys) ==
  LET k1 == IF IndexOf(keys, "_id") # 0 - 1 THEN Splice1(keys, IndexOf(keys, "_id")) ELSE keys
  IN  IF IndexOf(k1, "id") # 0 - 1 THEN Splice1(k1, IndexOf(k1, "id")) ELSE k1

\* fromArrayObj(data, dataTypes).  data is [keys |-> Object.keys(data[0]), rows |-> the
\* records, each a sequence of values in the order of keys]; no rows stands for an
\* empty or absent array, an empty dataTypes for an empty or absent one.
FromArrayObj(f, data, dataTypes) ==
  IF Len(data.rows) < 1 THEN Returned(f, <<>>)
  ELSE IF Len(dataTypes) = 0 THEN Returned(f, <<>>)
  ELSE LET keys == StripIds(data.keys)
           col(j) == [i \in 1..Len(data.rows) |->
                        data.rows[i][IndexOf(data.keys, keys[j]) + 1]]
       IN  Returned([Clear(f) EXCEPT !._categories = keys,
                                     !._table = [j \in 1..Len(keys) |-> col(j)]],
                    <<>>)

\* fromArray(data, dataTypes): data[1] is the header row
FromArray(f, data, dataTypes) ==
  IF Len(data) < 2 THEN Returned(f, <<>>)
  ELSE IF Len(dataTypes) = 0 THEN Returned(f, <<>>)
  ELSE IF Len(data[1]) # Len(dataTypes) THEN Returned(f, <<>>)
  ELSE LET n == Len(data[1])
       IN  Returned([Clear(f) EXCEPT
                       !._categories = data[1],
                       !._types = dataTypes,
                       !._table = [j \in 1..n |-> [i \in 1..(Len(data) - 1) |-> data[i + 1][j]]]],
                    <<>>)

\* get size
Size(f) == IF Len(f._table) = 0 THEN 0 ELSE Len(f._table[1])

\* get table: this._table[j].slice() for every j below categories.length
GetTable(f) ==
  IF Size(f) = 0 THEN Returned(f, <<>>)
  ELSE IF Len(f._categories) > Len(f._table) THEN Thrown(f)
  ELSE Returned(f, [j \in 1..Len(f._categories) |-> f._table[j]])

\* getColumn(category).  this._category is assigned before this._table[index].slice()
\* is evaluated, so a TypeError there leaves the new name with the old cached column.
GetColumn(f, category) ==
  IF category = f._category THEN Returned(f, f._column)
  ELSE LET index == IndexOf(f._categories, category)
       IN  IF index = 0 - 1 THEN Returned(f, <<>>)
           ELSE IF index >= Len(f._table)
                  THEN Thrown([f EXCEPT !._category = category])
           ELSE Returned([f EXCEPT !._category = category, !._column = f._table[index + 1]],
                         f._table[index + 1])

\* removeColumn(category)
RemoveColumn(f, category) ==
  LET index == IndexOf(f._categories, category)
      f1 == IF category = f._category THEN [f EXCEPT !._category = "", !._column = <<>>]
            ELSE f
  IN  IF index = 0 - 1 THEN Returned(f, <<>>)
      ELSE Returned([f1 EXCEPT !._table = Splice1(f._table, index)], <<>>)

\* split(row, data) with the training set ending before the row
SplitBeforeRow(f, row, data) ==
  LET src == IF data.given THEN data.cols ELSE f._table
      n == Len(src)
      m == IF n = 0 THEN 0 ELSE Len(src[1])
  IN  IF row < 0 \/ row >= m THEN Returned(f, [train |-> <<>>, test |-> <<>>])
      ELSE Returned(f, [train |-> [j \in 1..n |-> Slice(src[j], 0, row)],
                        test |-> [j \in 1..n |-> Slice(src[j], row, m)]])

\* split(row, data): data is [given |-> whether the argument is present, cols |-> it]
Split(f, row, data) ==
  LET src == IF data.given THEN data.cols ELSE f._table
      n == Len(src)
      m == IF n = 0 THEN 0 ELSE Len(src[1])
  IN  IF row < 0 \/ row >= m THEN Returned(f, [train |-> <<>>, test |-> <<>>])
      ELSE Returned(f, [train |-> [j \in 1..n |-> Slice(src[j], 0, row + 1)],
                        test |-> [j \in 1..n |-> Slice(src[j], row + 1, m)]])


\* ------------------------------------------------------------------- Chi2
\* The special functions are not evaluated: a value they return is the term of the
\* function and its arguments.  What is modelled of them is which function a call
\* reaches, what it returns without evaluating a series, and whether its loop ends.

\* a call that does not return: its loop never meets its exit test
Diverges == Special("diverges")

\* new TSMT$Chi2(): _fac is 0.0 and _nu is 1
NewChi2 == [_nu |-> I(1), _fac |-> I(0)]

\* a <= b of JavaScript (false when either side is NaN or undefined)
Le(a, b) == ~IsNaNKind(a) /\ ~IsNaNKind(b) /\ ~Lt(b, a)

\* isFinite(a)
isFinite(a) == a.k \in {"fin", "eps", "max", "nmax"}

\* 0.693147180559945309 * (0.5 * nu) + gammaln(0.5 * nu), kept as a term in nu.  For an
\* integer nu >= 1 its value is 0.693... or more (the least is at nu = 2), never 0.
FacOf(nu) == [k |-> "fac", nu |-> nu]

\* set nu(value) with the Math.floor left out
SetNuUnfloored(c, value) ==
  LET nu == IF isNaN(value) \/ ~isFinite(value) \/ Lt(value, I(1)) THEN I(1) ELSE value
  IN  [c EXCEPT !._nu = nu, !._fac = FacOf(nu)]

\* set nu(value)
SetNu(c, value) ==
  LET nu == IF isNaN(value) \/ ~isFinite(value) \/ Lt(value, I(1)) THEN I(1) ELSE value
  IN  [c EXCEPT !._nu = Floor(nu), !._fac = FacOf(Floor(nu))]

GammpTolInv == 1000000000

\* gammp hands a to gammapapprox when Math.floor(a) >= 100
ApproxFrom == 100

\* Math.abs(x) < 0.000000001
BelowGammpTol(x) ==
  IF x.k = "fin" /\ x.r = 1 THEN Abs(x.n) <= (x.d - 1) \div GammpTolInv
  ELSE Lt(MathAbs(x), Q(1, GammpTolInv))

\* gser(a, x) for a > 0: the series ends for a finite x; for another x the terms are
\* infinite or NaN and the exit test is false at every turn.  At x = 0 the first del
\* is 0 and the result is sum * Math.exp(-Infinity), that is 0.
Gser(a, x) ==
  CASE x = I(0) -> I(0)
    [] x.k = "fin" /\ x # I(0) -> [k |-> "gser", a |-> a, x |-> x]
    [] x.k = "ninf" -> Diverges

\* gcf(a, x) for a > 0: for an infinite or NaN x, del is NaN at every turn and
\* Math.abs(del - 1.0) <= epsilon is never true
Gcf(a, x) ==
  CASE x.k = "fin" -> [k |-> "gcf", a |-> a, x |-> x]
    [] x.k \in {"inf", "nan", "undef"} -> Diverges

\* gammapapprox(a, x, 1): 18 terms; NaN for an infinite or NaN x
Gammapapprox(a, x) ==
  CASE x.k = "fin" -> [k |-> "gammapapprox", a |-> a, x |-> x]
    [] x.k \in {"inf", "ninf", "nan", "undef"} -> NaN

\* 1.0 - g
OneMinus(g) ==
  IF g = Diverges THEN Diverges
  ELSE IF g.k \in {"fin", "nan"} THEN Sub(I(1), g)
  ELSE [k |-> "1-", g |-> g]

\* gammp(a, x)
Gammp(a, x) ==
  IF BelowGammpTol(x) THEN I(0)
  ELSE IF ~Lt(Floor(a), I(ApproxFrom)) THEN Gammapapprox(a, x)
  ELSE IF Lt(x, Add(a, I(1))) THEN Gser(a, x)
  ELSE OneMinus(Gcf(a, x))

\* gammapapprox(a, x, 0): ans or 1.0 + ans where gammapapprox(a, x, 1) is 1.0 - ans
\* or -ans
GammapapproxQ(a, x) == OneMinus(Gammapapprox(a, x))

\* gammaq(a, x)
Gammaq(a, x) ==
  IF ~Lt(Floor(a), I(ApproxFrom)) THEN GammapapproxQ(a, x)
  ELSE IF Lt(x, Add(a, I(1))) THEN OneMinus(Gser(a, x))
  ELSE Gcf(a, x)

\* the loop of betacf runs while m < 10000
BetacfCap == 10000

\* the Newton loop of invgammp runs while j < 12
NewtonCap == 12

\* The pass of betacf at which Math.abs(del - 1.0) <= epsilon first holds is not
\* computed: for a finite x it is any pass (here the first, a middle one or the last),
\* for another x del is NaN at every pass and the loop runs out.
BetacfPasses(x) ==
  IF x.k = "fin" THEN {1, BetacfCap \div 2, BetacfCap - 1} ELSE {BetacfCap - 1}

\* betacf(a, b, x) leaving its loop at the pass m: [v |-> h, passes |-> m]
Betacf(a, b, x, m) ==
  [v |-> IF x.k = "fin" THEN [k |-> "betacf", a |-> a, b |-> b, x |-> x] ELSE NaN,
   passes |-> m]

\* 1.0 - a * (0.253 + a * 0.12)
InvgammpT(a) == Sub(I(1), Mul(a, Add(Q(253, 1000), Mul(a, Q(12, 100)))))

\* the kind of the first guess x of invgammp(p, a) for a > 0 and a p that is NaN or
\* in [0, 1].  For a > 1 a p of 0 or 1 gives t = Math.sqrt(-2 * Math.log(0)) =
\* Infinity and x = Infinity / Infinity - t, NaN, which Math.max(1.e-3, x) keeps; for
\* a <= 1 a p of 0 gives Math.pow(0, 1 / a) = 0 and a p of 1 gives
\* 1.0 - Math.log(0) = Infinity.
InvgammpGuess(p, a) ==
  IF IsNaNKind(p) THEN "nan"
  ELSE IF Gt(a, I(1)) THEN (IF p = I(0) \/ p = I(1) THEN "nan" ELSE "positive")
  ELSE IF Lt(p, InvgammpT(a)) THEN (IF p = I(0) THEN "zero" ELSE "positive")
  ELSE IF p = I(1) THEN "inf" ELSE "positive"

\* invgammp(p, a) whose Newton loop, when it is entered with a positive finite x, is
\* left at the pass m: [v |-> x, passes |-> the passes begun] or Diverges.  The first
\* pass with a NaN or infinite x calls gammp(a, x).
Invgammp(p, a, m) ==
  LET guess == InvgammpGuess(p, a)
      x == IF guess = "inf" THEN PosInf ELSE NaN
  IN  CASE guess = "zero" -> [v |-> I(0), passes |-> 1]
        [] guess = "positive" -> [v |-> [k |-> "invgammp", p |-> p, a |-> a], passes |-> m]
        [] guess \in {"nan", "inf"} ->
             IF Gammp(a, x) = Diverges THEN Diverges ELSE [v |-> NaN, passes |-> NewtonCap]

\* Every Chi2 method is [v |-> the value returned (Diverges: none), spc |-> the
\* TSMT$Spcfcn functions it called].
Chi2Returned(v, spc) == [v |-> v, spc |-> spc]

\* Math.exp(-0.5 * (x2 - (nu - 2.0) * Math.log(x2)) - fac) for x2 > 0 or NaN
Density(nu, fac, x2) ==
  IF IsNaNKind(x2) THEN NaN
  ELSE IF x2.k = "inf" THEN (IF Lt(nu, I(2)) THEN I(0) ELSE NaN)
  ELSE [k |-> "exp", nu |-> nu, fac |-> fac, x2 |-> x2]

\* p(x2)
Chi2P(c, x2) ==
  IF Le(x2, I(0)) THEN Chi2Returned(I(0), <<>>)
  ELSE Chi2Returned(Density(c._nu, c._fac, x2), <<>>)

\* cdf(x2) answering -1 below zero, as q does
Chi2CdfSentinel(c, x2) ==
  IF Le(x2, I(0)) THEN Chi2Returned(I(0 - 1), <<>>)
  ELSE Chi2Returned(Gammp(Div(c._nu, I(2)), Mul(Half, x2)), <<"gammp">>)

\* cdf(x2)
Chi2Cdf(c, x2) ==
  IF Le(x2, I(0)) THEN Chi2Returned(I(0), <<>>)
  ELSE Chi2Returned(Gammp(Div(c._nu, I(2)), Mul(Half, x2)), <<"gammp">>)

\* q(x2)
Chi2Q(c, x2) ==
  IF Le(x2, I(0)) THEN Chi2Returned(I(0 - 1), <<>>)
  ELSE Chi2Returned(OneMinus(Gammp(Div(c._nu, I(2)), Mul(Half, x2))), <<"gammp">>)

\* ------------------------------------------------------------------ state
VARIABLES
  frame,    \* a TSMT$DataFrame
  __stats,  \* the TSMT$DataStats instance (FrameStats.__stats)
  __chisq,  \* the TSMT$Chi2 instance (TableAnalysis.__chisq)
  ret,      \* the last call: [op, arg, threw, val]
  hist      \* history: what the last load put into the frame, what was removed since

vars == <<frame, __stats, __chisq, ret, hist>>

NoCall == [op |-> "new", arg |-> <<>>, threw |-> FALSE, val |-> <<>>]

NoHist ==
  [cats |-> <<>>, cols |-> <<>>, removed |-> {}, cached |-> "", assigns |-> 0, calls |-> 0]

Construct ==
  /\ frame = NewDataFrame
  /\ __stats = NewDataStats
  /\ __chisq = NewChi2
  /\ ret = NoCall
  /\ hist = NoHist

\* ----------------------------------------------------- DataFrame: the calls
ColNames == <<"a", "b", "c", "d">>

\* Column contents: the DataFrame never inspects a value, so a column is drawn as
\* seed, seed+1, ... with one seed per column (equal and different columns both occur).
Seeds == {0, 1}

TagCycle == <<NUMERIC, CHARACTER, BOOLEAN_TYPE, NUMERIC, CHARACTER>>

\* the dataTypes arguments: one per length (the empty one also stands for an absent one)
TypeLists == {SubSeq(TagCycle, 1, k) : k \in 0..MaxCols}

\* rectangular row data: r rows of c values, r from 0 (none) to MaxRows
RowData(c) ==
  {[i \in 1..r |-> [j \in 1..c |-> I(seed[j] + i - 1)]] :
     r \in 0..MaxRows, seed \in [1..c -> Seeds]}

\* the column j of row data
ColumnOf(rows, j) == [i \in 1..Len(rows) |-> rows[i][j]]

\* the record keys of fromArrayObj input for c columns: plain, or with both id keys
KeyLists(c) ==
  LET names == SubSeq(ColNames, 1, c)
  IN  {names, <<"_id">> \o names \o <<"id">>}

\* the records of fromArrayObj input: the values of rows under the keys, the id key
\* (if any) holding the negated record number
Records(keys, names, rows) ==
  [i \in 1..Len(rows) |->
     [q \in 1..Len(keys) |->
        IF keys[q] \in {"id", "_id"} THEN I(0 - i) ELSE rows[i][IndexOf(names, keys[q]) + 1]]]

\* the history after a load: what it stored, and the category that getColumn had cached
\* when the load was made
Loaded(cats, cols) ==
  [hist EXCEPT !.cats = cats, !.cols = cols, !.removed = {}, !.cached = frame._category]

\* what a load call was given: no data, no type list, a type list of another width
\* than the data, or data and a type list that agree
LoadArg(rows, c, dataTypes) ==
  IF Len(rows) = 0 THEN "nodata"
  ELSE IF Len(dataTypes) = 0 THEN "notypes"
  ELSE IF Len(dataTypes) # c THEN "mismatch"
  ELSE "wellformed"

\* the calls of fromArray a caller makes: the arguments, and for the history what
\* they describe (whether both are present and agree in width, the names, the columns)
FromArrayInputs ==
  UNION {{[data |-> <<SubSeq(ColNames, 1, c)>> \o rows,
           dataTypes |-> dataTypes,
           arg |-> LoadArg(rows, c, dataTypes),
           cats |-> SubSeq(ColNames, 1, c),
           cols |-> [j \in 1..c |-> ColumnOf(rows, j)]] :
            rows \in RowData(c), dataTypes \in TypeLists} : c \in 1..MaxCols}

FromArrayCall ==
  \E in \in FromArrayInputs :
    LET r == FromArray(frame, in.data, in.dataTypes)
    IN  /\ frame' = r.f
        /\ ret' = [op |-> "fromArray", arg |-> in.arg, threw |-> r.threw, val |-> r.v]
        /\ hist' = IF in.arg = "wellformed"
                     THEN Loaded(in.cats, in.cols)
                     ELSE hist
        /\ UNCHANGED <<__stats, __chisq>>

FromArrayObjInputs ==
  UNION {{[data |-> [keys |-> keys, rows |-> Records(keys, SubSeq(ColNames, 1, c), rows)],
           dataTypes |-> dataTypes,
           arg |-> LoadArg(rows, c, dataTypes),
           cats |-> SubSeq(ColNames, 1, c),
           cols |-> [j \in 1..c |-> ColumnOf(rows, j)]] :
            keys \in KeyLists(c), rows \in RowData(c), dataTypes \in TypeLists} :
         c \in 1..MaxCols}

FromArrayObjCall ==
  \E in \in FromArrayObjInputs :
    LET r == FromArrayObj(frame, in.data, in.dataTypes)
    IN  /\ frame' = r.f
        /\ ret' = [op |-> "fromArrayObj", arg |-> in.arg, threw |-> r.threw, val |-> r.v]
        /\ hist' = IF in.arg \in {"wellformed", "mismatch"}
                     THEN Loaded(in.cats, in.cols)
                     ELSE hist
        /\ UNCHANGED <<__stats, __chisq>>

\* the names a caller may ask for: the column names and one that is never loaded
AskNames == {ColNames[i] : i \in 1..MaxCols} \cup {"zz"}

GetColumnCall ==
  \E category \in AskNames :
    LET r == GetColumn(frame, category)
    IN  /\ frame' = r.f
        /\ ret' = [op |-> "getColumn", arg |-> category, threw |-> r.threw, val |-> r.v]
        /\ UNCHANGED <<__stats, __chisq, hist>>

RemoveColumnCall ==
  \E category \in AskNames :
    LET r == RemoveColumn(frame, category)
    IN  /\ frame' = r.f
        /\ ret' = [op |-> "removeColumn", arg |-> category, threw |-> r.threw, val |-> r.v]
        /\ hist' = IF IndexOf(frame._categories, category) # 0 - 1
                     THEN [hist EXCEPT !.removed = @ \cup {category}]
                     ELSE hist
        /\ UNCHANGED <<__stats, __chisq>>

\* the optional second argument of split: absent, an empty data set, or MaxCols columns
\* of MaxRows rows
SplitData ==
  {[given |-> FALSE, cols |-> <<>>], [given |-> TRUE, cols |-> <<>>],
   [given |-> TRUE, cols |-> [j \in 1..MaxCols |-> [i \in 1..MaxRows |-> I(10 * j + i)]]]}

SplitCall ==
  \E row \in (0 - 1)..MaxRows : \E data \in SplitData :
    LET r == Split(frame, row, data)
    IN  /\ frame' = r.f
        /\ ret' = [op |-> "split", arg |-> [row |-> row, data |-> data],
                   threw |-> r.threw, val |-> r.v]
        /\ UNCHANGED <<__stats, __chisq, hist>>

TableNext ==
  \/ FromArrayCall
  \/ FromArrayObjCall
  \/ GetColumnCall
  \/ RemoveColumnCall
  \/ SplitCall

\* a DataFrame under any sequence of its calls
SpecTable == Construct /\ [][TableNext]_vars

\* ------------------------------------------------------ DataFrame: claims
SameLengthColumns(f) ==
  \A i, j \in 1..Len(f._table) : Len(f._table[i]) = Len(f._table[j])

\* C1: in every reachable state of a DataFrame the number of column names, the
\* number of type tags and the number of stored columns are equal, and all stored
\* columns have the same length.
C1_TableShape ==
  /\ Len(frame._categories) = Len(frame._types)
  /\ Len(frame._types) = Len(frame._table)
  /\ SameLengthColumns(frame)

\* C2: a getColumn(name) for a column that was loaded and has not been removed since
\* does not fail and returns exactly the values loaded for that column.
C2_GetColumnReturnsLoaded ==
  (/\ ret.op = "getColumn"
   /\ IndexOf(hist.cats, ret.arg) # 0 - 1
   /\ ret.arg \notin hist.removed)
    => /\ ~ret.threw
       /\ ret.val = hist.cols[IndexOf(hist.cats, ret.arg) + 1]

\* C3: a removeColumn(name) of an existing column takes the name out of categories
\* and its tag out of dataTypes, drops the stored column count by one and makes a
\* later getColumn(name) return an empty sequence; removeColumn of an unknown name
\* changes nothing.
C3_RemoveColumnRemoves ==
  [][ret'.op = "removeColumn" =>
       LET name == ret'.arg
           index == IndexOf(frame._categories, name)
           later == GetColumn(frame', name)
       IN  IF index = 0 - 1 THEN frame' = frame
           ELSE /\ IndexOf(frame'._categories, name) = 0 - 1
                /\ frame'._types = Splice1(frame._types, index)
                /\ Len(frame'._table) = Len(frame._table) - 1
                /\ ~later.threw
                /\ later.v = <<>>]_vars

\* C17: after a load by fromArray or fromArrayObj with data and a type list that agree,
\* the frame holds the categories and columns of this load and no cached column, the
\* type tags are those of this load (none after fromArrayObj), and getColumn(name)
\* returns the column of this load for name, or an empty one if it has none.
C17_ResetOnLoad ==
  (ret.op \in {"fromArray", "fromArrayObj"} /\ ret.arg = "wellformed") =>
    /\ frame._categories = hist.cats
    /\ frame._table = hist.cols
    /\ frame._category = "" /\ frame._column = <<>>
    /\ frame._types = IF ret.op = "fromArray" THEN SubSeq(TagCycle, 1, Len(hist.cats))
                                                 ELSE <<>>
    /\ \A name \in AskNames :
         LET r == GetColumn(frame, name)
         IN  /\ ~r.threw
             /\ r.v = IF IndexOf(hist.cats, name) # 0 - 1
                        THEN hist.cols[IndexOf(hist.cats, name) + 1]
                        ELSE <<>>

\* a load onto a frame whose cached column was one that the new load has too
C17_Witness ==
  /\ ret.op \in {"fromArray", "fromArrayObj"}
  /\ ret.arg = "wellformed"
  /\ hist.cached # ""
  /\ IndexOf(hist.cats, hist.cached) # 0 - 1

\* C18: split(row, data) leaves the frame as it was and returns, for a row from 0 to
\* below the row count of its source (the frame's columns, or data when given), for
\* every column j of the source, train[j] = the rows 0..row and test[j] = the rows after
\* them, so that train[j] followed by test[j] is column j; for another row it returns
\* an empty train and an empty test set.
C18_SplitAtRow ==
  [][ret'.op = "split" =>
       LET src == IF ret'.arg.data.given THEN ret'.arg.data.cols ELSE frame._table
           m == IF Len(src) = 0 THEN 0 ELSE Len(src[1])
           row == ret'.arg.row
       IN  /\ ~ret'.threw
           /\ frame' = frame
           /\ IF 0 <= row /\ row < m
                THEN /\ Len(ret'.val.train) = Len(src)
                     /\ Len(ret'.val.test) = Len(src)
                     /\ \A j \in 1..Len(src) :
                          /\ ret'.val.train[j] = SubSeq(src[j], 1, row + 1)
                          /\ ret'.val.test[j] = SubSeq(src[j], row + 2, m)
                          /\ ret'.val.train[j] \o ret'.val.test[j] = src[j]
                ELSE ret'.val = [train |-> <<>>, test |-> <<>>]]_vars

\* a split of the frame's own two rows after the first
C18_Witness ==
  /\ ret.op = "split"
  /\ ~ret.arg.data.given
  /\ ret.arg.row = 0
  /\ Len(ret.val.train) >= 1
  /\ Len(ret.val.train[1]) = 1
  /\ Len(ret.val.test[1]) = 1

\* C16: a call of fromArray or fromArrayObj with no data, with no type list or with a
\* type list of another length than the number of columns returns without error and
\* leaves categories, type tags, stored columns and the read cache as they were.
C16_MalformedIsNoOp ==
  [][(/\ ret'.op \in {"fromArray", "fromArrayObj"}
      /\ ret'.arg \in {"nodata", "notypes", "mismatch"}) =>
       (~ret'.threw /\ frame' = frame)]_vars

\* ----------------------------------------------------- DataStats: the calls
StatVals == {I(0 - 1), Q(3, 2)}

\* the arrays assigned to data: empty, or 1..MaxLen values
StatData == UNION {[1..n -> StatVals] : n \in 0..MaxLen}

\* stats.data = dataProvider, at most MaxAssign times in a behaviour
SetDataCall ==
  \E dataProvider \in StatData :
    /\ hist.assigns < MaxAssign
    /\ __stats' = SetData(__stats, dataProvider)
    /\ ret' = [op |-> "data", arg |-> dataProvider, threw |-> FALSE, val |-> <<>>]
    /\ hist' = [hist EXCEPT !.assigns = @ + 1]
    /\ UNCHANGED <<frame, __chisq>>

\* the read of one memoized getter
Getter(name, s) ==
  CASE name = "min" -> GetMin(s)
    [] name = "max" -> GetMax(s)
    [] name = "mean" -> GetMean(s)
    [] name = "std" -> GetStd(s)
    [] name = "median" -> GetMedian(s)
    [] name = "mode" -> GetMode(s)

Read(name) ==
  LET r == Getter(name, __stats)
  IN  /\ __stats' = r.s
      /\ ret' = [op |-> name, arg |-> <<>>, threw |-> FALSE, val |-> r.v]
      /\ UNCHANGED <<frame, __chisq, hist>>

ReadMin == Read("min")

ReadMax == Read("max")

ReadMean == Read("mean")

ReadStd == Read("std")

ReadMedian == Read("median")

ReadMode == Read("mode")

StatsNext ==
  \/ SetDataCall
  \/ ReadMin
  \/ ReadMax
  \/ ReadMean
  \/ ReadStd
  \/ ReadMedian
  \/ ReadMode

\* a DataStats instance under assignments of data and reads of its memoized getters
SpecStats == Construct /\ [][StatsNext]_vars

\* ------------------------------------------------------ DataStats: claims
MemoizedGetters == {"min", "max", "mean", "std", "median", "mode"}

\* C4: every read of min, max, mean, std, median or mode returns what a fresh
\* DataStats instance that was assigned only the data now held would return.
C4_MemoizationTransparent ==
  ret.op \in MemoizedGetters =>
    ret.val = Getter(ret.op, SetData(NewDataStats, __stats._data)).v

\* a read of std served from the memo (the flag is down) after a second assignment
\* of other data than the first
C4_Witness ==
  /\ ret.op = "std"
  /\ hist.assigns >= 2
  /\ ~__stats._stdInvalidated
  /\ Len(__stats._data) >= 2
  /\ ret.val # I(0)

\* C19: on non-empty data a read of min returns the smallest and a read of max the
\* largest element of the data.
C19_MinMaxOfData ==
  (ret.op \in {"min", "max"} /\ Len(__stats._data) > 0) =>
    /\ \E i \in 1..Len(__stats._data) : ret.val = __stats._data[i]
    /\ \A i \in 1..Len(__stats._data) :
         IF ret.op = "min" THEN ~Lt(__stats._data[i], ret.val)
                           ELSE ~Gt(__stats._data[i], ret.val)

\* C22: on non-empty data a read of mode returns a value of the data with the
\* highest number of occurrences, unchanged also when it is not an integer, and among
\* several values with that number the one visited last by the iteration over the
\* buckets.
C22_ModeOfData ==
  (ret.op = "mode" /\ Len(__stats._data) > 0) =>
    LET data == __stats._data
        keys == HashKeyOrder(data)
        best == CHOOSE c \in 1..Len(data) :
                  /\ \E i \in 1..Len(keys) : Occurrences(data, keys[i]) = c
                  /\ \A i \in 1..Len(keys) : Occurrences(data, keys[i]) <= c
        last == CHOOSE i \in 1..Len(keys) :
                  /\ Occurrences(data, keys[i]) = best
                  /\ \A j \in (i + 1)..Len(keys) : Occurrences(data, keys[j]) < best
    IN  ret.val = keys[last]

\* C29: an assignment of an empty, null or undefined array to data is ignored: the
\* held data, the number of samples, every memoized value and every invalidation flag
\* stay as they were, so every getter returns after it what it returned before it.
C29_EmptyAssignmentIgnored ==
  [][(ret'.op = "data" /\ ret'.arg = <<>>) =>
       /\ __stats' = __stats
       /\ Len(__stats'._data) = Len(__stats._data)
       /\ \A name \in MemoizedGetters : Getter(name, __stats').v = Getter(name, __stats).v]_vars

\* an empty assignment to an instance that holds two data and a memoized mean
C29_Witness ==
  /\ ret.op = "data"
  /\ ret.arg = <<>>
  /\ Len(__stats._data) = 2
  /\ ~__stats._meanInvalidated
  /\ __stats._mean # I(0)

\* ------------------------------------------------- DataStats: fiveNumbers
\* the arrays assigned to data: none, or 1..MaxFive of the values 1..MaxFive in any order
FiveData == UNION {[1..n -> {I(v) : v \in 1..MaxFive}] : n \in 0..MaxFive}

\* a DataStats that was assigned an array (an empty one leaves it without data)
FiveInit ==
  \E dataProvider \in FiveData :
    /\ frame = NewDataFrame
    /\ __stats = SetData(NewDataStats, dataProvider)
    /\ __chisq = NewChi2
    /\ ret = NoCall
    /\ hist = [data |-> dataProvider]

\* stats.data = dataProvider with a non-empty array
FiveAssignCall ==
  \E dataProvider \in FiveData \ {<<>>} :
    /\ __stats' = SetData(__stats, dataProvider)
    /\ ret' = [op |-> "data", arg |-> <<>>, threw |-> FALSE, val |-> <<>>]
    /\ hist' = [data |-> dataProvider]
    /\ UNCHANGED <<frame, __chisq>>

\* stats.fiveNumbers: the getter sorts a copy and writes no field
FiveNumbersCall ==
  /\ ret' = [op |-> "fiveNumbers", arg |-> <<>>, threw |-> FALSE, val |-> FiveNumbers(__stats)]
  /\ UNCHANGED <<frame, __stats, __chisq, hist>>

FiveNext ==
  \/ FiveAssignCall
  \/ FiveNumbersCall

\* a DataStats under assignments of data and reads of fiveNumbers
SpecFive == FiveInit /\ [][FiveNext]_vars

\* the middle of an ascending sequence: its middle element, or the mean of its two
MiddleOf(q) ==
  IF Len(q) % 2 = 1 THEN q[(Len(q) + 1) \div 2]
  ELSE Div(Add(q[Len(q) \div 2], q[Len(q) \div 2 + 1]), I(2))

\* C20: fiveNumbers returns an empty array for no data, five copies of the value for
\* one value, and otherwise the least element, the middle of the lower half, the
\* middle, the middle of the upper half and the greatest element of the data in
\* ascending order, where both halves of an odd number of data hold the middle
\* element; the five values do not decrease ([1,2,3,4] gives [1, 1.5, 2.5, 3.5, 4]) and
\* the stored data are in the order they were assigned in.
C20_FiveNumbers ==
  ret.op = "fiveNumbers" =>
    LET n == Len(hist.data)
        d == SortAsc(hist.data)
        v == ret.val
    IN  /\ __stats._data = hist.data
        /\ n = 0 => v = <<>>
        /\ n = 1 => v = [i \in 1..5 |-> hist.data[1]]
        /\ n >= 2 =>
             /\ v = <<d[1], MiddleOf(SubSeq(d, 1, (n + 1) \div 2)), MiddleOf(d),
                      MiddleOf(SubSeq(d, n \div 2 + 1, n)), d[n]>>
             /\ \A i \in 1..4 : ~Lt(v[i + 1], v[i])
        /\ hist.data = <<I(1), I(2), I(3), I(4)>> =>
             v = <<I(1), Q(3, 2), Q(5, 2), Q(7, 2), I(4)>>

\* the five numbers of three different values assigned out of order
C20_Witness ==
  /\ ret.op = "fiveNumbers"
  /\ hist.data = <<I(3), I(1), I(2)>>
  /\ ret.val = <<I(1), Q(3, 2), I(2), Q(5, 2), I(3)>>

\* ------------------------------------------------- DataStats: getQuantile
\* the fractions handed to getQuantile: NaN, undefined, Infinity, zero, one, numbers
\* below 0.01 and above 0.99, both ends of the accepted range, and fractions in it
\* whose reciprocal is an integer or not
QuantileFractions ==
  {NaN, Undefined, PosInf, I(0), I(1), I(0 - 1), Q(1, 200), Q(199, 200),
   Q(1, 100), Q(99, 100), Q(1, 10), Q(1, 4), Q(1, 3), Q(2, 5), Q(1, 2), Q(3, 5)}

\* the arrays assigned to data: none, or fewer than MaxFive of the values 1..MaxFive
\* in any order
QuantileData == UNION {[1..n -> {I(v) : v \in 1..MaxFive}] : n \in 0..(MaxFive - 1)}

\* a DataStats that was assigned an array (an empty one leaves it without data)
QuantileInit ==
  \E dataProvider \in QuantileData :
    /\ frame = NewDataFrame
    /\ __stats = SetData(NewDataStats, dataProvider)
    /\ __chisq = NewChi2
    /\ ret = NoCall
    /\ hist = [data |-> dataProvider]

\* stats.data = dataProvider with a non-empty array
QuantileAssignCall ==
  \E dataProvider \in QuantileData \ {<<>>} :
    /\ __stats' = SetData(__stats, dataProvider)
    /\ ret' = [op |-> "data", arg |-> <<>>, threw |-> FALSE, val |-> <<>>]
    /\ hist' = [data |-> dataProvider]
    /\ UNCHANGED <<frame, __chisq>>

\* the effect of stats.getQuantile(_p) returning r: the method sorts a copy and
\* writes no field
QuantileCall(_p, r) ==
  /\ ret' = [op |-> "getQuantile", arg |-> _p, threw |-> FALSE, val |-> r]
  /\ UNCHANGED <<frame, __stats, __chisq, hist>>

GetQuantileCall == \E _p \in QuantileFractions : QuantileCall(_p, GetQuantile(__stats, _p))

QuantileNext ==
  \/ QuantileAssignCall
  \/ GetQuantileCall

\* a DataStats under assignments of data and calls of getQuantile
SpecQuantile == QuantileInit /\ [][QuantileNext]_vars

\* p is a number in [0.01, 0.99]
InQuantileRange(p) == p.k = "fin" /\ p.r = 1 /\ 100 * p.n >= p.d /\ 100 * p.n <= 99 * p.d

\* floor(1/p) of a fraction p = n/d in (0, 1)
ReciprocalFloor(p) == p.d \div p.n

C27_QuantileCounts ==
  (ret.op = "getQuantile" /\ Len(hist.data) >= 2) =>
    LET d == SortAsc(hist.data)
        v == ret.val
    IN  /\ ret.arg = Q(1, 4) => Len(v) = 5
        /\ ret.arg = Q(1, 10) => Len(v) = 12
        /\ Len(v) >= 2 /\ v[1] = d[1] /\ v[Len(v)] = d[Len(d)]

\* -------------------------------------------------------- Spcfcn: the calls
\* the first arguments a > 0: below and above 1, and on both sides of the a from
\* which gammp and gammaq hand over to gammapapprox
GammaAs == {Q(1, 100), Q(1, 2), I(1), I(2), I(ApproxFrom - 1), Q(2 * ApproxFrom + 1, 2)}

\* the arguments x: zero, a number below and one at the tolerance of gammp, numbers on
\* both sides of a + 1 for the values of a above, and the values no series converges
\* for, Infinity and NaN
GammaXs ==
  {I(0), Q(1, 2 * GammpTolInv), Q(1, GammpTolInv), Q(1, 2), I(1), I(3),
   I(ApproxFrom + 1), I(3 * ApproxFrom), PosInf, NaN}

\* the probabilities handed to invgammp and the second arguments of betacf
GammaPs == {I(0), Q(1, 4), Q(3, 4), I(1), NaN}

BetaBs == {Q(1, 2), I(2)}

NotCalled == Special("none")

\* the arguments a and x of the calls; no function of TSMT$Spcfcn keeps state
SpcInit ==
  \E a \in GammaAs : \E x \in GammaXs :
    /\ frame = NewDataFrame
    /\ __stats = NewDataStats
    /\ __chisq = NewChi2
    /\ ret = NoCall
    /\ hist = [a |-> a, x |-> x, p |-> NotCalled, q |-> NotCalled]

\* the effect of the call op(arg) that returned v, or Diverges
SpcCall(op, arg, v, h) ==
  /\ ret' = [op |-> op, arg |-> arg, threw |-> FALSE, val |-> v]
  /\ hist' = h
  /\ UNCHANGED <<frame, __stats, __chisq>>

GammpCall ==
  LET v == Gammp(hist.a, hist.x)
  IN  SpcCall("gammp", <<hist.a, hist.x>>, v, [hist EXCEPT !.p = v])

GammaqCall ==
  LET v == Gammaq(hist.a, hist.x)
  IN  SpcCall("gammaq", <<hist.a, hist.x>>, v, [hist EXCEPT !.q = v])

BetacfCall ==
  \E b \in BetaBs : \E m \in BetacfPasses(hist.x) :
    SpcCall("betacf", <<hist.a, b, hist.x>>, Betacf(hist.a, b, hist.x, m), hist)

InvgammpCall ==
  \E p \in GammaPs : \E m \in 1..NewtonCap :
    SpcCall("invgammp", <<p, hist.a>>, Invgammp(p, hist.a, m), hist)

SpcNext ==
  \/ GammpCall
  \/ GammaqCall
  \/ BetacfCall
  \/ InvgammpCall

\* calls of the incomplete gamma functions, of betacf and of invgammp
SpecSpcfcn == SpcInit /\ [][SpcNext]_vars

\* -------------------------------------------------------- Spcfcn: claims
\* a term of gser or gammapapprox whose value, for an x below the tolerance of gammp,
\* is below 1e-9: gser(a, x) is about x^a / gamma(a + 1), below x for a >= 1 (but
\* 2.5e-5 for a = 0.5 and x = 5e-10), and gammapapprox is only reached with a >= 100
Negligible(g) ==
  \/ g.k = "gammapapprox"
  \/ g.k = "gser" /\ ~Lt(g.a, I(1))

\* p + q is 1 up to rounding: two numbers that sum to 1, complementary values of the
\* same evaluation routine, or a p of 0 with a q of 1.0 - g for a negligible g
SumIsOne(p, q) ==
  \/ p.k = "fin" /\ q.k = "fin" /\ Add(p, q) = I(1)
  \/ p.k # "fin" /\ p # Diverges /\ p.k # "nan" /\ q = OneMinus(p)
  \/ q.k # "fin" /\ q # Diverges /\ q.k # "nan" /\ p = OneMinus(q)
  \/ p = I(0) /\ q.k = "1-" /\ Negligible(q.g)

\* C24: for every a > 0 and every finite x >= 0, gammp(a, x) + gammaq(a, x) = 1, also
\* for an x below the tolerance of gammp, where gammp returns 0.
C24_PPlusQIsOne ==
  (hist.p # NotCalled /\ hist.q # NotCalled /\ hist.x.k = "fin" /\ Le(I(0), hist.x)) =>
    SumIsOne(hist.p, hist.q)

\* C25: every call of betacf returns after at most 10,000 passes of its loop, every
\* call of invgammp after at most 12 passes of its Newton loop, and every call of gammp
\* or gammaq that reaches gcf returns, also when the convergence test of gcf never
\* becomes true.
C25_BoundedLoops ==
  /\ ret.op \in {"gammp", "gammaq", "betacf", "invgammp"} => ret.val # Diverges
  /\ (ret.op = "betacf" /\ ret.val # Diverges) => ret.val.passes <= BetacfCap
  /\ (ret.op = "invgammp" /\ ret.val # Diverges) => ret.val.passes <= NewtonCap

\* ---------------------------------------------------------- Chi2: the calls
\* the values assigned to nu: NaN, undefined, the infinities, Number.MIN_VALUE, negative
\* numbers, zero, the integers up to MaxNu, the fractions between them, and a nu whose
\* half is handed to gammapapprox
NuVals ==
  {NaN, Undefined, PosInf, NegInf, MIN_VALUE, I(2 * ApproxFrom)}
    \cup {I(i) : i \in (0 - 2)..MaxNu} \cup {Q(2 * i + 1, 2) : i \in (0 - 1)..MaxNu}

\* the arguments of p, cdf and q: NaN, the infinities, negative numbers, zero, a positive
\* number whose half is below the tolerance of gammp, and numbers on both sides of
\* a + 1 for the values of nu above
X2Vals ==
  {NaN, PosInf, NegInf, Q(1, GammpTolInv), Q(1, 2), I(2 * ApproxFrom + 4)}
    \cup {I(i) : i \in (0 - 1)..(MaxNu + 3)}

\* a new TSMT$Chi2
Chi2Init ==
  /\ frame = NewDataFrame
  /\ __stats = NewDataStats
  /\ __chisq = NewChi2
  /\ ret = NoCall
  /\ hist = [before |-> NewChi2, spc |-> <<>>]

\* chisq.nu = value
NuCall ==
  \E value \in NuVals :
    /\ __chisq' = SetNu(__chisq, value)
    /\ ret' = [op |-> "nu", arg |-> value, threw |-> FALSE, val |-> <<>>]
    /\ hist' = [before |-> __chisq, spc |-> <<"gammaln">>]
    /\ UNCHANGED <<frame, __stats>>

\* the effect of the method call r made as op(x2): no method but the nu setter writes a
\* field of the instance
Chi2Call(op, x2, r) ==
  /\ ret' = [op |-> op, arg |-> x2, threw |-> FALSE, val |-> r.v]
  /\ hist' = [before |-> __chisq, spc |-> r.spc]
  /\ UNCHANGED <<frame, __stats, __chisq>>

PCall == \E x2 \in X2Vals : Chi2Call("p", x2, Chi2P(__chisq, x2))

CdfCall == \E x2 \in X2Vals : Chi2Call("cdf", x2, Chi2Cdf(__chisq, x2))

QCall == \E x2 \in X2Vals : Chi2Call("q", x2, Chi2Q(__chisq, x2))

Chi2Next ==
  \/ NuCall
  \/ PCall
  \/ CdfCall
  \/ QCall

\* a Chi2 instance under assignments of nu and calls of p, cdf and q
SpecChi2 == Chi2Init /\ [][Chi2Next]_vars

\* ------------------------------------------------------------ Chi2: claims
\* C12: in every state of a Chi2 instance, from construction on, the stored constant
\* is ln(2) * (nu / 2) + logGamma(nu / 2) of the stored nu.
C12_ConstantInSync == __chisq._fac = FacOf(__chisq._nu)

\* C13: the stored nu is an integer of 1 or more; after an assignment of a finite
\* number of 1 or more it is the floor of that number, and after an assignment of any
\* other value it is 1.
C13_NuSanitized ==
  LET nu == __chisq._nu
  IN  /\ nu.k = "fin" /\ nu.r = 1 /\ nu.d = 1 /\ nu.n >= 1
      /\ ret.op = "nu" =>
           IF ret.arg.k = "fin" /\ ~Lt(ret.arg, I(1))
             THEN Le(nu, ret.arg) /\ Lt(ret.arg, I(nu.n + 1))
             ELSE nu = I(1)

\* an assignment of 2.5 that stored 2
C13_Witness == ret.op = "nu" /\ ret.arg = Q(5, 2) /\ __chisq._nu = I(2)

\* c + q of two doubles where q was computed as 1.0 - c: for a c between 0 and 1 the
\* rounding error of 1.0 - c is at most half a unit in the last place of 1, and the sum
\* rounds to 1
CdfPlusQ(c, q) ==
  IF c.k \in {"fin", "nan"} /\ q.k \in {"fin", "nan"} THEN Add(c, q)
  ELSE IF q = OneMinus(c) THEN I(1)
  ELSE NaN

\* C14: for every x > 0 and every stored nu, cdf(x) and q(x) return and their sum is 1.
C14_CdfPlusQIsOne ==
  (ret.op = "cdf" /\ Gt(ret.arg, I(0))) =>
    /\ ret.val # Diverges
    /\ Chi2Q(__chisq, ret.arg).v # Diverges
    /\ CdfPlusQ(ret.val, Chi2Q(__chisq, ret.arg).v) = I(1)

\* C15: for every x2 <= 0 and every stored nu, q returns -1, cdf returns 0 and p
\* returns 0, no special function is called, and nu and the constant are as before.
C15_NonPositiveSentinels ==
  (ret.op \in {"p", "cdf", "q"} /\ Le(ret.arg, I(0))) =>
    /\ ret.val = IF ret.op = "q" THEN I(0 - 1) ELSE I(0)
    /\ hist.spc = <<>>
    /\ __chisq = hist.before

\* cdf of a negative number on an instance whose nu was assigned a value other than 1
C15_Witness ==
  /\ ret.op = "cdf"
  /\ Lt(ret.arg, I(0))
  /\ __chisq._nu # I(1)

\* ------------------------------------------------------------- FrameStats
\* Every FrameStats call is [f |-> the frame after it, s |-> this.__stats after it,
\* threw |-> whether it ended in a TypeError, v |-> the value returned].
FsReturned(f, s, v) == [f |-> f, s |-> s, threw |-> FALSE, v |-> v]

FsThrown(f, s) == [f |-> f, s |-> s, threw |-> TRUE, v |-> <<>>]

\* a call returning the value r.v of a DataStats read that left the instance as r.s
FsFrom(f, r) == FsReturned(f, r.s, r.v)

\* getSummary(frame, category)
GetSummary(s, f, category) ==
  LET col == GetColumn(f, category)
      s1 == SetData(s, col.v)
  IN  IF col.threw THEN FsThrown(col.f, s)
      ELSE IF Len(col.v) > 0 THEN FsReturned(col.f, s1, FiveNumbers(s1))
      ELSE FsReturned(col.f, s, <<>>)

SingleStatEnum ==
  {"MIN", "MAX", "RANGE", "MEAN", "MEDIAN", "MODE", "HARMONIC_MEAN", "GEOMETRIC_MEAN",
   "STDDEV", "SKEWNESS", "KURTOSIS"}

\* the switch of singleStat on an instance that holds the column
SingleStatSwitch(s, type) ==
  CASE type = "MIN" -> GetMin(s)
    [] type = "MAX" -> GetMax(s)
    [] type = "RANGE" ->
         LET mx == GetMax(s)
             mn == GetMin(mx.s)
         IN  [s |-> mn.s, v |-> Sub(mx.v, mn.v)]
    [] type = "MEAN" -> GetMean(s)
    [] type = "MEDIAN" -> GetMedian(s)
    [] type = "MODE" -> GetMode(s)
    [] type = "STDDEV" -> GetStd(s)
    [] type = "GEOMETRIC_MEAN" -> [s |-> s, v |-> GeometricMean(s)]
    [] type = "HARMONIC_MEAN" -> [s |-> s, v |-> HarmonicMean(s)]
    [] type = "SKEWNESS" -> GetSkewness(s)
    [] type = "KURTOSIS" -> GetKurtosis(s)
    [] OTHER -> [s |-> s, v |-> I(0)]

\* singleStat(frame, category, type) without the assignment of the column to
\* this.__stats.data
SingleStatStale(s, f, category, type) ==
  LET col == GetColumn(f, category)
  IN  IF col.threw THEN FsThrown(col.f, s)
      ELSE IF Len(col.v) > 0 THEN FsFrom(col.f, SingleStatSwitch(s, type))
      ELSE FsReturned(col.f, s, I(0))

\* singleStat(frame, category, type)
SingleStat(s, f, category, type) ==
  LET col == GetColumn(f, category)
  IN  IF col.threw THEN FsThrown(col.f, s)
      ELSE IF Len(col.v) > 0 THEN FsFrom(col.f, SingleStatSwitch(SetData(s, col.v), type))
      ELSE FsReturned(col.f, s, I(0))

DoubleStatEnum == {"CORRELATION", "COVARIANCE"}

\* doubleStat(frame, category1, category2, type)
\* the switch of doubleStat on the two columns
DoubleStatSwitch(s, x, y, type) ==
  IF type = "CORRELATION" THEN Correlation(s, x, y)
  ELSE IF type = "COVARIANCE" THEN Covariance(s, x, y)
  ELSE [s |-> s, v |-> I(0)]

DoubleStat(s, f, category1, category2, type) ==
  LET x == GetColumn(f, category1)
      y == GetColumn(x.f, category2)
  IN  IF x.threw THEN FsThrown(x.f, s)
      ELSE IF y.threw THEN FsThrown(y.f, s)
      ELSE IF Len(x.v) > 0 /\ Len(y.v) > 0
             THEN FsFrom(y.f, DoubleStatSwitch(s, x.v, y.v, type))
      ELSE FsReturned(y.f, s, I(0))

\* getFences(frame, category): the column is fetched, and the five numbers are
\* those of whatever data this.__stats holds
GetFences(s, f, category) ==
  LET col == GetColumn(f, category)
  IN  IF col.threw THEN FsThrown(col.f, s)
      ELSE IF Len(col.v) > 0 THEN FsReturned(col.f, s, FencesOf(FiveNumbers(s)))
      ELSE FsReturned(col.f, s, [lower |-> I(0), upper |-> I(0)])

\* getQuantiles(frame, category, q)
GetQuantiles(s, f, category, q) ==
  LET col == GetColumn(f, category)
      s1 == SetData(s, col.v)
  IN  IF col.threw THEN FsThrown(col.f, s)
      ELSE IF Len(col.v) > 0 THEN FsReturned(col.f, s1, GetQuantile(s1, q))
      ELSE FsReturned(col.f, s, <<>>)

\* col[i] = (col[i] - mu) * sigma for every i
Standardized(col, mu, sigma) == [i \in 1..Len(col) |-> Mul(Sub(col[i], mu), sigma)]

RECURSIVE ZScoreLoop(_, _, _, _, _), ZScoreStd(_, _, _, _, _), ZScoreColumn(_, _, _, _, _, _)
\* the column loop of zScore from j (0-based) up to n = frame.size
ZScoreLoop(s, f, output, n, j) ==
  IF j >= n THEN FsReturned(f, s, output)
  ELSE IF j >= Len(output) THEN FsThrown(f, s)
  ELSE ZScoreStd(f, output, n, j, GetMean(SetData(s, output[j + 1])))

\* the body of the loop once mu = this.__stats.mean is read
ZScoreStd(f, output, n, j, mu) == ZScoreColumn(f, output, n, j, mu.v, GetStd(mu.s))

\* the body of the loop once std = this.__stats.std is read: sigma = 1/std
ZScoreColumn(f, output, n, j, mu, sd) ==
  ZScoreLoop(sd.s, f,
             [output EXCEPT ![j + 1] = Standardized(output[j + 1], mu, Div(I(1), sd.v))],
             n, j + 1)

\* zScore(frame)
ZScore(s, f) ==
  LET output == GetTable(f)
  IN  IF output.threw THEN FsThrown(f, s)
      ELSE ZScoreLoop(s, f, output.v, Size(f), 0)

\* ---------------------------------------------------- FrameStats: the calls
\* the numeric tables handed to FrameStats: c columns of r rows, column j holding
\* j-1, 2j-1, 3j-1, ... (every column differs from the others in all its statistics)
NumericTables ==
  {[data |-> <<SubSeq(ColNames, 1, c)>>
               \o [i \in 1..r |-> [j \in 1..c |-> I((j - 1) + (i - 1) * j)]],
    dataTypes |-> [j \in 1..c |-> NUMERIC],
    cats |-> SubSeq(ColNames, 1, c),
    cols |-> [j \in 1..c |-> [i \in 1..r |-> I((j - 1) + (i - 1) * j)]]] :
     c \in 1..MaxCols, r \in 1..MaxRows}

\* a new FrameStats (or TableAnalysis) and a frame loaded with a numeric table
FrameInit ==
  \E in \in NumericTables :
    /\ frame = FromArray(NewDataFrame, in.data, in.dataTypes).f
    /\ __stats = NewDataStats
    /\ __chisq = NewChi2
    /\ ret = NoCall
    /\ hist = [NoHist EXCEPT !.cats = in.cats, !.cols = in.cols]

Counted == [hist EXCEPT !.calls = @ + 1]

\* the frame is loaded anew with another table
FrameLoadCall ==
  \E in \in NumericTables :
    LET r == FromArray(frame, in.data, in.dataTypes)
    IN  /\ hist.calls < MaxCalls
        /\ frame' = r.f
        /\ ret' = [op |-> "fromArray", arg |-> "wellformed", threw |-> r.threw, val |-> r.v]
        /\ hist' = [Counted EXCEPT !.cats = in.cats, !.cols = in.cols]
        /\ UNCHANGED <<__stats, __chisq>>

\* the effect of a FrameStats call r made as op(arg)
FsCall(op, arg, r) ==
  /\ hist.calls < MaxCalls
  /\ frame' = r.f
  /\ __stats' = r.s
  /\ ret' = [op |-> op, arg |-> arg, threw |-> r.threw, val |-> r.v]
  /\ hist' = Counted
  /\ UNCHANGED __chisq

GetSummaryCall ==
  \E category \in AskNames :
    FsCall("getSummary", category, GetSummary(__stats, frame, category))

SingleStatCall ==
  \E category \in AskNames : \E type \in SingleStatEnum \cup {"NOT_A_MEMBER"} :
    FsCall("singleStat", [category |-> category, type |-> type],
           SingleStat(__stats, frame, category, type))

DoubleStatCall ==
  \E category1 \in AskNames : \E category2 \in AskNames :
  \E type \in DoubleStatEnum \cup {"NOT_A_MEMBER"} :
    FsCall("doubleStat", [category1 |-> category1, category2 |-> category2, type |-> type],
           DoubleStat(__stats, frame, category1, category2, type))

GetFencesCall ==
  \E category \in AskNames :
    FsCall("getFences", category, GetFences(__stats, frame, category))

\* the q arguments of getQuantiles: quartiles, halves, and one that is sanitized
QuantileArgs == {Q(1, 4), Q(1, 2), NaN}

GetQuantilesCall ==
  \E category \in AskNames : \E q \in QuantileArgs :
    FsCall("getQuantiles", [category |-> category, q |-> q],
           GetQuantiles(__stats, frame, category, q))

ZScoreCall == FsCall("zScore", <<>>, ZScore(__stats, frame))

\* ---------------------------------------------------------- TableAnalysis
\* A JavaScript array that may have holes and properties outside its index range:
\* [len |-> its length, el |-> its own properties by (0-based, possibly negative) index].
NewArray == [len |-> 0, el |-> <<>>]

\* a[i]: undefined where the array has no such property
ArrGet(a, i) == IF i \in DOMAIN a.el THEN a.el[i] ELSE Undefined

\* a[i] = v: the length grows to i + 1 when i is an index at or past it
ArrSet(a, i, v) ==
  [len |-> IF i >= a.len THEN i + 1 ELSE a.len,
   el |-> [j \in (DOMAIN a.el) \cup {i} |-> IF j = i THEN v ELSE a.el[j]]]

\* a.push(v)
ArrPush(a, v) == ArrSet(a, a.len, v)

\* the grouping arguments of crossTable: undefined, null, an object without a length
\* property, or an array of group strings; a group string is kept as the sequence of
\* literals that split(" ") makes of it
GroupingArg(kind, groups) == [kind |-> kind, groups |-> groups]

\* grouping != undefined && grouping != null, then grouping.hasOwnProperty("length")
IsGrouped(grouping) == grouping.kind = "array"

\* the loop over the groups: the index of the first group holding col.toString(), -1
\* when no group holds it (or there is no group)
GroupIndex(groups, col) ==
  IF \E j \in 1..Len(groups) : IndexOf(groups[j], col) # 0 - 1
    THEN (CHOOSE j \in 1..Len(groups) :
            /\ IndexOf(groups[j], col) # 0 - 1
            /\ \A h \in 1..(j - 1) : IndexOf(groups[h], col) = 0 - 1) - 1
    ELSE 0 - 1

\* counts is the sequence of [key, row] in the order the keys were added (the order
\* for-in visits keys that are not array indices)
CountsIndex(counts, item) ==
  IF \E k \in 1..Len(counts) : counts[k].key = item
    THEN CHOOSE k \in 1..Len(counts) : counts[k].key = item
    ELSE 0

\* row[indx] = 1 when isNaN(row[indx]), row[indx]++ otherwise
Bump(row, indx) ==
  IF isNaN(ArrGet(row, indx)) THEN ArrSet(row, indx, I(1))
  ELSE ArrSet(row, indx, Add(ArrGet(row, indx), I(1)))

\* the update of the count of item in the column indx
CountItem(counts, item, indx) ==
  IF CountsIndex(counts, item) # 0
    THEN [counts EXCEPT ![CountsIndex(counts, item)].row = Bump(@, indx)]
    ELSE Append(counts, [key |-> item, row |-> ArrSet(NewArray, indx, I(1))])

RECURSIVE CountLoop(_, _, _, _, _)
\* the loop over the elements of the independent variable, from i (1-based) on
CountLoop(x, y, groups, i, counts) ==
  IF i > Len(x) THEN counts
  ELSE CountLoop(x, y, groups, i + 1, CountItem(counts, x[i], GroupIndex(groups, y[i])))

RECURSIVE RowSumFrom(_, _, _, _)
\* rowCount += row[j] for the columns from j (0-based) on
RowSumFrom(row, columns, j, rowCount) ==
  IF j >= columns THEN rowCount
  ELSE RowSumFrom(row, columns, j + 1, Add(rowCount, ArrGet(row, j)))

\* columnCounts[j] += row[j] for every column
AddToColumnCounts(columnCounts, row) ==
  [j \in 1..Len(columnCounts) |-> Add(columnCounts[j], ArrGet(row, j - 1))]

RECURSIVE TotalsLoop(_, _, _, _, _), TotalsStep(_, _, _, _, _, _)
\* the loop appending each row's total: [counts, columnCounts, sum] after it
TotalsLoop(counts, k, columns, columnCounts, sum) ==
  IF k > Len(counts) THEN [counts |-> counts, columnCounts |-> columnCounts, sum |-> sum]
  ELSE TotalsStep(counts, k, columns, columnCounts, sum,
                  RowSumFrom(counts[k].row, columns, 0, I(0)))

\* the body of the loop once rowCount is summed: row.push(rowCount), sum += rowCount
TotalsStep(counts, k, columns, columnCounts, sum, rowCount) ==
  TotalsLoop([counts EXCEPT ![k].row = ArrPush(@, rowCount)], k + 1, columns,
             AddToColumnCounts(columnCounts, counts[k].row), Add(sum, rowCount))

\* the cell object { n, r, c, t } of an observed count
CellObj(n, rowCount, columnCount, sum) ==
  [n |-> n, r |-> Div(n, rowCount), c |-> Div(n, columnCount), t |-> Mul(n, sum)]

\* e[j] = s * s / t with s = observed - t
CellChi2(observed, t) == Div(Mul(Sub(observed, t), Sub(observed, t)), t)

\* t = (columnCounts[j] * rowCount) * sum
ExpectedOf(columnCount, rowCount, sum) == Mul(Mul(columnCount, rowCount), sum)

RECURSIVE RowChi2From(_, _, _, _, _, _)
\* chi2 += e[j] for the columns of theRow from j (0-based) on
RowChi2From(theRow, columnCounts, rowCount, sum, j, chi2) ==
  IF j >= Len(columnCounts) THEN chi2
  ELSE RowChi2From(theRow, columnCounts, rowCount, sum, j + 1,
                   Add(chi2, CellChi2(ArrGet(theRow, j),
                                      ExpectedOf(columnCounts[j + 1], rowCount, sum))))

RECURSIVE RowCellsFrom(_, _, _, _, _, _)
\* theRow[j] = obj for the columns from j (0-based) on; old is the row of counts
RowCellsFrom(theRow, old, columnCounts, rowCount, sum, j) ==
  IF j >= Len(columnCounts) THEN theRow
  ELSE RowCellsFrom(ArrSet(theRow, j,
                           CellObj(ArrGet(old, j), rowCount, columnCounts[j + 1], sum)),
                    old, columnCounts, rowCount, sum, j + 1)

RECURSIVE CellsLoop(_, _, _, _, _, _)
\* the final loop over the rows: [counts, chi2] after it; sum is 1.0 / sum
CellsLoop(counts, k, columns, columnCounts, sum, chi2) ==
  IF k > Len(counts) THEN [counts |-> counts, chi2 |-> chi2]
  ELSE CellsLoop(
         [counts EXCEPT ![k].row =
            RowCellsFrom(@, @, columnCounts, ArrGet(@, columns), sum, 0)],
         k + 1, columns, columnCounts, sum,
         RowChi2From(counts[k].row, columnCounts, ArrGet(counts[k].row, columns), sum,
                     0, chi2))

\* Every TableAnalysis call is [f |-> the frame after it, c |-> this.__chisq after it,
\* threw |-> whether it ended in a TypeError, v |-> the value returned].
TaReturned(f, c, v) == [f |-> f, c |-> c, threw |-> FALSE, v |-> v]

TaThrown(f, c) == [f |-> f, c |-> c, threw |-> TRUE, v |-> <<>>]

\* a call that is still in a loop of a special function: it has not thrown and there is
\* no value
TaDiverged(f, c) == [f |-> f, c |-> c, threw |-> FALSE, v |-> Diverges]

\* return { chi2, df, q, table } once q = this.__chisq.q(chi2) is computed
CrossReturn(f, c, chi2, df, table, q) ==
  IF q = Diverges THEN TaDiverged(f, c)
  ELSE TaReturned(f, c, [chi2 |-> chi2, df |-> df, q |-> q, table |-> table])

\* { chi2, df, q, table } with nu assigned from df before q is computed
CrossResult(f, c, chi2, df, table) ==
  CrossReturn(f, c, chi2, df, table, Chi2Q(c, chi2).v)

\* crossTable from the final loop on
CrossFinish(f, c, n, columns, cells) ==
  CrossResult(f, SetNu(c, I((n - 1) * (columns - 1))), cells.chi2,
              (n - 1) * (columns - 1), cells.counts)

\* crossTable from the totals on
CrossCells(f, c, n, columns, totals) ==
  CrossFinish(f, c, n, columns,
              CellsLoop(totals.counts, 1, columns, totals.columnCounts,
                        Div(I(1), totals.sum), I(0)))

\* crossTabulation from its final loop on
CrossTabulationCells(f, c, table, n, columns, colCounts, rowCounts, sum) ==
  LET e == [k \in 1..(columns * n) |->
              LET j == ((k - 1) \div n) + 1
                  i == ((k - 1) % n) + 1
              IN  CellChi2(table[j + 1][i], ExpectedOf(colCounts[j], rowCounts[i], sum))]
      counts == [j \in 1..columns |->
                   [i \in 1..n |->
                      CellObj(table[j + 1][i], rowCounts[i], colCounts[j], sum)]]
      df == (n - 1) * (columns - 1)
  IN  CrossResult(f, SetNu(c, I(df)), SumFrom(e, 1, I(0)), df, counts)

\* crossTabulation from the row and column counts on
CrossTabulationCounts(f, c, table, n, columns, colCounts) ==
  CrossTabulationCells(f, c, table, n, columns, colCounts,
    [i \in 1..n |-> SumFrom([j \in 1..columns |-> table[j + 1][i]], 1, I(0))],
    Div(I(1), SumFrom(colCounts, 1, I(0))))

\* crossTabulation once frame.table is read
CrossTabulationOf(f, c, got, n, columns) ==
  IF got.threw THEN TaThrown(f, c)
  ELSE CrossTabulationCounts(f, c, got.v, n, columns,
         [j \in 1..columns |-> SumFrom(got.v[j + 1], 1, I(0))])

\* crossTabulation(frame): the first column holds the independent variable, every
\* other column the counts of one observation
CrossTabulation(f, c) ==
  IF Size(f) = 0 THEN TaReturned(f, c, <<>>)
  ELSE CrossTabulationOf(f, c, GetTable(f), Size(f), Len(f._categories) - 1)

\* crossTable once the groups are known
CrossCount(f, c, x, y, groups) ==
  CrossCells(f, c, Len(x), Len(groups),
             TotalsLoop(CountLoop(x, y, groups, 1, <<>>), 1, Len(groups),
                        [j \in 1..Len(groups) |-> I(0)], I(0)))

\* the groups: the split grouping strings, or one group per distinct item of y
GroupsOf(grouping, y) ==
  IF IsGrouped(grouping) THEN grouping.groups
  ELSE [j \in 1..Len(Distinct(y)) |-> <<Distinct(y)[j]>>]

\* crossTable(frame, category1, category2, grouping) with colNames omitted (the names are
\* written to a local array that is not part of the result).  grouping.length is read
\* before the test of grouped, which is a TypeError for undefined and for null.
CrossTable(f, c, category1, category2, grouping) ==
  LET x == GetColumn(f, category1)
      y == GetColumn(x.f, category2)
  IN  IF x.threw THEN TaThrown(x.f, c)
      ELSE IF y.threw THEN TaThrown(y.f, c)
      ELSE IF Len(x.v) = 0 \/ Len(y.v) = 0 THEN TaReturned(y.f, c, <<>>)
      ELSE IF grouping.kind \in {"undefined", "null"} THEN TaThrown(y.f, c)
      ELSE CrossCount(y.f, c, x.v, y.v, GroupsOf(grouping, y.v))

\* col[i] = r * (col[i] - minValue) with r = 1.0 / (maxValue - minValue)
Scaled(col, minValue, maxValue) ==
  [i \in 1..Len(col) |-> Mul(Div(I(1), Sub(maxValue, minValue)), Sub(col[i], minValue))]

RECURSIVE NormalizeLoop(_, _, _, _, _)
\* the column loop of normalize from j (0-based) up to n = frame.size
NormalizeLoop(f, c, output, n, j) ==
  IF j >= n THEN TaReturned(f, c, output)
  ELSE IF j >= Len(output) THEN TaThrown(f, c)
  ELSE NormalizeLoop(f, c,
         [output EXCEPT ![j + 1] = Scaled(@, ScanMin(@, 1, MAX_VALUE),
                                          ScanMax(@, 1, NEG_MAX_VALUE))],
         n, j + 1)

\* normalize(frame) had frame.table handed out the stored columns themselves: the
\* scaled values are then written into the frame
NormalizeInPlace(f, c) ==
  LET output == GetTable(f)
      r == NormalizeLoop(f, c, output.v, Size(f), 0)
  IN  IF output.threw THEN TaThrown(f, c)
      ELSE IF r.threw THEN r
      ELSE [r EXCEPT !.f = [f EXCEPT !._table = r.v]]

\* normalize(frame)
Normalize(f, c) ==
  LET output == GetTable(f)
  IN  IF output.threw THEN TaThrown(f, c)
      ELSE NormalizeLoop(f, c, output.v, Size(f), 0)

\* (count[item] * n1 * 100).toFixed(2): the string of the percentage with two
\* decimals, kept as a term
ToFixed2(x) == [k |-> "toFixed(2)", x |-> x]

RECURSIVE OneWayCount(_, _, _, _)
\* the counting loop of oneWayTable from index i (1-based) on, the first occurrence of
\* an item counted as first
OneWayCount(data, i, count, first) ==
  IF i > Len(data) THEN count
  ELSE LET item == data[i]
       IN  OneWayCount(data, i + 1,
             IF item \in DOMAIN count THEN [count EXCEPT ![item] = @ + 1]
             ELSE [k \in DOMAIN count \cup {item} |-> IF k = item THEN first ELSE count[k]],
             first)

\* the value oneWayTable returns for the column data
OneWayResult(data, _asPercentage, first) ==
  LET n == Len(data)
      count == OneWayCount(data, 1, <<>>, first)
  IN  IF n = 0 THEN <<>>
      ELSE IF _asPercentage
             THEN [item \in DOMAIN count |->
                     ToFixed2(Mul(Mul(I(count[item]), Div(I(1), I(n))), I(100)))]
      ELSE count

\* oneWayTable with every count starting at 0
OneWayTableFromZero(f, c, category, _asPercentage) ==
  LET data == GetColumn(f, category)
  IN  IF data.threw THEN TaThrown(data.f, c)
      ELSE TaReturned(data.f, c, OneWayResult(data.v, _asPercentage, 0))

\* oneWayTable(frame, category, _asPercentage): an object is the function from its
\* keys to their values, the empty object the empty function
OneWayTable(f, c, category, _asPercentage) ==
  LET data == GetColumn(f, category)
  IN  IF data.threw THEN TaThrown(data.f, c)
      ELSE TaReturned(data.f, c, OneWayResult(data.v, _asPercentage, 1))

\* ------------------------------------------------- TableAnalysis: the calls
\* the effect of a TableAnalysis call r made as op(arg)
TaCall(op, arg, r) ==
  /\ frame' = r.f
  /\ __chisq' = r.c
  /\ ret' = [op |-> op, arg |-> arg, threw |-> r.threw, val |-> r.v]
  /\ UNCHANGED __stats

\* normalize on the numeric frame of SpecFrame
NormalizeCall ==
  /\ hist.calls < MaxCalls
  /\ TaCall("normalize", <<>>, Normalize(frame, __chisq))
  /\ hist' = Counted

\* the values of the independent and of the dependent variable
XVals == {"p", "q"}

YVals == {"u", "v"}

\* the two-column character tables: column a holds the independent variable x and
\* column b the dependent variable y
CharTables ==
  UNION {{[data |-> <<<<"a", "b">>>> \o [i \in 1..r |-> <<x[i], y[i]>>],
           dataTypes |-> <<CHARACTER, CHARACTER>>,
           cats |-> <<"a", "b">>,
           cols |-> <<x, y>>] : x \in [1..r -> XVals], y \in [1..r -> YVals]} :
         r \in 1..MaxRows}

\* the grouping arguments: omitted, null, not an array, blank, ["u", "v"] (one group
\* per value), ["u v"] (one group of both values) and ["u"] (no group holds v)
Groupings ==
  {GroupingArg("undefined", <<>>), GroupingArg("null", <<>>), GroupingArg("object", <<>>),
   GroupingArg("array", <<>>), GroupingArg("array", <<<<"u">>, <<"v">>>>),
   GroupingArg("array", <<<<"u", "v">>>>), GroupingArg("array", <<<<"u">>>>)}

\* a new TableAnalysis and a frame loaded with a character table
CrossInit ==
  \E in \in CharTables :
    /\ frame = FromArray(NewDataFrame, in.data, in.dataTypes).f
    /\ __stats = NewDataStats
    /\ __chisq = NewChi2
    /\ ret = NoCall
    /\ hist = [NoHist EXCEPT !.cats = in.cats, !.cols = in.cols]

\* the frame is loaded anew with another character table
CrossLoadCall ==
  \E in \in CharTables :
    LET r == FromArray(frame, in.data, in.dataTypes)
    IN  /\ frame' = r.f
        /\ ret' = [op |-> "fromArray", arg |-> "wellformed", threw |-> r.threw, val |-> r.v]
        /\ hist' = [hist EXCEPT !.cats = in.cats, !.cols = in.cols]
        /\ UNCHANGED <<__stats, __chisq>>

CrossTableCall ==
  \E category1 \in AskNames : \E category2 \in AskNames : \E grouping \in Groupings :
    /\ TaCall("crossTable",
              [category1 |-> category1, category2 |-> category2, grouping |-> grouping],
              CrossTable(frame, __chisq, category1, category2, grouping))
    /\ UNCHANGED hist

\* the numeric tables handed to crossTabulation: a column a numbering the rows and up
\* to MaxCols columns of counts 0 or 1
CountTables ==
  UNION {{[data |-> <<SubSeq(<<"a", "b", "c", "d">>, 1, m + 1)>>
                      \o [i \in 1..r |-> <<I(i)>> \o [j \in 1..m |-> I(cnt[j][i])]],
           dataTypes |-> [j \in 1..(m + 1) |-> NUMERIC]] :
            cnt \in [1..m -> [1..r -> 0..1]]} :
         r \in 1..MaxRows, m \in 0..MaxCols}

\* crossTabulation of another frame, loaded with a table of counts, by the same
\* TableAnalysis instance
TabulationCall(arg, r) ==
  /\ __chisq' = r.c
  /\ ret' = [op |-> "crossTabulation", arg |-> arg, threw |-> r.threw, val |-> r.v]
  /\ UNCHANGED <<frame, __stats, hist>>

CrossTabulationCall ==
  \E in \in CountTables :
    TabulationCall(in.data,
                   CrossTabulation(FromArray(NewDataFrame, in.data, in.dataTypes).f, __chisq))

CrossNext ==
  \/ CrossLoadCall
  \/ CrossTableCall
  \/ CrossTabulationCall

\* one TableAnalysis instance cross-tabulating character tables
SpecCross == CrossInit /\ [][CrossNext]_vars

\* ------------------------------------------- TableAnalysis: oneWayTable
ItemVals == {"A", "B", "C"}

\* the two-column character tables of up to MaxRows + 1 rows, column a holding any
\* items and column b one item in every row, and the table of the column
\* [A, B, A, C, A]
ItemColumns ==
  UNION {[1..r -> ItemVals] : r \in 1..(MaxRows + 1)} \cup {<<"A", "B", "A", "C", "A">>}

ItemTables ==
  {[data |-> <<<<"a", "b">>>> \o [i \in 1..Len(x) |-> <<x[i], "B">>],
    dataTypes |-> <<CHARACTER, CHARACTER>>,
    cats |-> <<"a", "b">>,
    cols |-> <<x, [i \in 1..Len(x) |-> "B"]>>] : x \in ItemColumns}

\* a new TableAnalysis and a frame loaded with a table of items
OneWayInit ==
  \E in \in ItemTables :
    /\ frame = FromArray(NewDataFrame, in.data, in.dataTypes).f
    /\ __stats = NewDataStats
    /\ __chisq = NewChi2
    /\ ret = NoCall
    /\ hist = [NoHist EXCEPT !.cats = in.cats, !.cols = in.cols]

\* the frame is loaded anew with another table of items
OneWayLoadCall ==
  \E in \in ItemTables :
    LET r == FromArray(frame, in.data, in.dataTypes)
    IN  /\ frame' = r.f
        /\ ret' = [op |-> "fromArray", arg |-> "wellformed", threw |-> r.threw, val |-> r.v]
        /\ hist' = [hist EXCEPT !.cats = in.cats, !.cols = in.cols]
        /\ UNCHANGED <<__stats, __chisq>>

OneWayTableCall ==
  \E category \in AskNames : \E _asPercentage \in BOOLEAN :
    /\ TaCall("oneWayTable", [category |-> category, _asPercentage |-> _asPercentage],
              OneWayTable(frame, __chisq, category, _asPercentage))
    /\ UNCHANGED hist

OneWayNext ==
  \/ OneWayLoadCall
  \/ OneWayTableCall

\* one TableAnalysis instance counting the items of character tables
SpecOneWay == OneWayInit /\ [][OneWayNext]_vars

\* ------------------------------------------- the numeric-frame specification
FrameNext ==
  \/ FrameLoadCall
  \/ GetSummaryCall
  \/ SingleStatCall
  \/ DoubleStatCall
  \/ GetFencesCall
  \/ GetQuantilesCall
  \/ ZScoreCall
  \/ NormalizeCall

\* one FrameStats and one TableAnalysis instance serving up to MaxCalls calls on a
\* loaded numeric frame
SpecFrame == FrameInit /\ [][FrameNext]_vars

\* ----------------------------------------------------- FrameStats: claims
\* the column of the frame named by category, as loaded
LoadedColumn(category) == hist.cols[IndexOf(hist.cats, category) + 1]

\* C5: getFences(frame, category) on an existing column (of two values or more)
\* returns lower = Q1 - 1.5*IQR and upper = Q3 + 1.5*IQR of the five-number summary of
\* that column, whatever was called before it on the instance.
C5_FencesOfNamedColumn ==
  (/\ ret.op = "getFences"
   /\ IndexOf(hist.cats, ret.arg) # 0 - 1
   /\ Len(hist.cols[1]) >= 2) =>
    /\ ~ret.threw
    /\ ret.val = FencesOf(FiveNumbers(SetData(NewDataStats, LoadedColumn(ret.arg))))

\* C11: after normalize or zScore the frame holds the categories, the type tags and
\* the columns it was loaded with, and getColumn of each of its categories returns the
\* loaded (untransformed) values.
C11_OriginalUntouched ==
  ret.op \in {"normalize", "zScore"} =>
    /\ frame._categories = hist.cats
    /\ frame._types = [j \in 1..Len(hist.cats) |-> NUMERIC]
    /\ frame._table = hist.cols
    /\ \A j \in 1..Len(hist.cats) :
         LET r == GetColumn(frame, hist.cats[j])
         IN  ~r.threw /\ r.v = hist.cols[j]

\* a transformation of a table of two rows that returned values other than the stored
C11_Witness ==
  /\ ret.op \in {"normalize", "zScore"}
  /\ ~ret.threw
  /\ Len(hist.cols[1]) >= 2
  /\ ret.val # hist.cols

\* C10: zScore(table) on a table of two rows or more does not fail and returns, for
\* every column j of the table and every row i, (value - mean of column j) divided by
\* the standard deviation of column j.
C10_ZScoreEveryColumn ==
  (ret.op = "zScore" /\ Len(hist.cols[1]) >= 2) =>
    /\ ~ret.threw
    /\ Len(ret.val) = Len(hist.cols)
    /\ \A j \in 1..Len(hist.cols) :
         LET col == hist.cols[j]
             fresh == SetData(NewDataStats, col)
         IN  ret.val[j] = [i \in 1..Len(col) |->
                             Div(Sub(col[i], GetMean(fresh).v), GetStd(fresh).v)]

\* a frame loaded with the table the frame was last loaded with, on which no call was
\* made since
FreshFrame ==
  LET in == CHOOSE t \in NumericTables : t.cats = hist.cats /\ t.cols = hist.cols
  IN  FromArray(NewDataFrame, in.data, in.dataTypes).f

Known(category) == IndexOf(hist.cats, category) # 0 - 1

\* C30: getSummary, singleStat, getQuantiles and doubleStat of one FrameStats instance
\* do not depend on the calls made before: each returns what a new FrameStats instance
\* returns for the same arguments on a newly loaded frame of the same table, and for
\* an unknown column the empty array or 0.
C30_HistoryIndependent ==
  /\ ret.op \in {"getSummary", "singleStat", "getQuantiles", "doubleStat"} => ~ret.threw
  /\ ret.op = "getSummary" =>
       /\ ret.val = GetSummary(NewDataStats, FreshFrame, ret.arg).v
       /\ ~Known(ret.arg) => ret.val = <<>>
  /\ ret.op = "singleStat" =>
       /\ ret.val = SingleStat(NewDataStats, FreshFrame, ret.arg.category, ret.arg.type).v
       /\ ~Known(ret.arg.category) => ret.val = I(0)
  /\ ret.op = "getQuantiles" =>
       /\ ret.val = GetQuantiles(NewDataStats, FreshFrame, ret.arg.category, ret.arg.q).v
       /\ ~Known(ret.arg.category) => ret.val = <<>>
  /\ ret.op = "doubleStat" =>
       /\ ret.val = DoubleStat(NewDataStats, FreshFrame, ret.arg.category1,
                               ret.arg.category2, ret.arg.type).v
       /\ (~Known(ret.arg.category1) \/ ~Known(ret.arg.category2)) => ret.val = I(0)

\* the mean of the second column read as the last of MaxCalls calls on one instance
C30_Witness ==
  /\ ret.op = "singleStat"
  /\ ret.arg = [category |-> "b", type |-> "MEAN"]
  /\ hist.calls = MaxCalls
  /\ Len(hist.cols) = 2
  /\ Len(hist.cols[2]) = 2
  /\ ret.val = I(2)
  /\ __stats._data = hist.cols[2]

\* --------------------------------------------------- TableAnalysis: claims
\* the last call was crossTable on two existing columns
CrossCalled ==
  /\ ret.op = "crossTable"
  /\ IndexOf(hist.cats, ret.arg.category1) # 0 - 1
  /\ IndexOf(hist.cats, ret.arg.category2) # 0 - 1

\* ... with a grouping array of one group or more in which every value of the second
\* column belongs to a group
CrossGrouped ==
  /\ CrossCalled
  /\ ret.arg.grouping.kind = "array"
  /\ Len(ret.arg.grouping.groups) >= 1
  /\ \A i \in 1..Len(LoadedColumn(ret.arg.category2)) :
       GroupIndex(ret.arg.grouping.groups, LoadedColumn(ret.arg.category2)[i]) # 0 - 1

\* the call returned a result: it neither threw nor is it still in a loop
CrossReturned == ~ret.threw /\ ret.val # Diverges

\* C6: crossTable for a grouping array in which every value of the second column
\* belongs to a group returns a result in which the counts n of the cells of each row
\* category sum to the row total held at index = number of groups, and the row totals
\* sum to the number of input rows.
C6_RowTotals ==
  CrossGrouped =>
   CrossReturned /\
    LET columns == Len(ret.arg.grouping.groups)
        table == ret.val.table
        ns(row) == [len |-> columns, el |-> [j \in 0..(columns - 1) |-> ArrGet(row, j).n]]
        totals == [k \in 1..Len(table) |-> ArrGet(table[k].row, columns)]
    IN  /\ \A k \in 1..Len(table) :
             /\ totals[k].k = "fin"
             /\ totals[k] = RowSumFrom(ns(table[k].row), columns, 0, I(0))
        /\ SumFrom(totals, 1, I(0)) = I(Len(LoadedColumn(ret.arg.category1)))

\* C7: the df of a crossTable result for a grouping array in which every value of the
\* second column belongs to a group is (number of distinct row categories - 1) *
\* (number of column groups - 1).
C7_DegreesOfFreedom ==
  (CrossGrouped /\ CrossReturned) =>
    ret.val.df = (Len(Distinct(LoadedColumn(ret.arg.category1))) - 1)
                   * (Len(ret.arg.grouping.groups) - 1)

\* C8: crossTable on two existing columns with the grouping omitted (undefined, null)
\* or an empty array raises no exception, and every row of its table has as many group
\* cells as the second column has distinct values (followed by the row total).
C8_NoGrouping ==
  (/\ CrossCalled
   /\ \/ ret.arg.grouping.kind \in {"undefined", "null"}
      \/ ret.arg.grouping = GroupingArg("array", <<>>)) =>
    /\ CrossReturned
    /\ \A k \in 1..Len(ret.val.table) :
         ret.val.table[k].row.len = Len(Distinct(LoadedColumn(ret.arg.category2))) + 1

\* C9: normalize(table) on a numeric table of two rows or more does not fail, returns
\* as many columns as the table has, and every output column of a non-constant column
\* has minimum 0 and maximum 1.
C9_NormalizeEveryColumn ==
  (ret.op = "normalize" /\ Len(hist.cols[1]) >= 2) =>
    /\ ~ret.threw
    /\ Len(ret.val) = Len(hist.cols)
    /\ \A j \in 1..Len(hist.cols) :
         (\E i \in 1..Len(hist.cols[j]) : hist.cols[j][i] # hist.cols[j][1]) =>
           /\ ScanMin(ret.val[j], 1, MAX_VALUE) = I(0)
           /\ ScanMax(ret.val[j], 1, NEG_MAX_VALUE) = I(1)

RECURSIVE CountsTotal(_, _, _)
\* the sum of the values of the mapping count at the keys from index i on
CountsTotal(count, keys, i) ==
  IF i > Len(keys) THEN 0 ELSE count[keys[i]] + CountsTotal(count, keys, i + 1)

\* C23: oneWayTable(table, column) without percentage returns a mapping whose keys are
\* the distinct values of the column and whose value at each key is the number of rows
\* holding it, so that the values sum to the length of the column ([A,B,A,C,A] gives
\* A: 3, B: 1, C: 1); for an unknown column it returns the empty mapping.
C23_OneWayCounts ==
  (ret.op = "oneWayTable" /\ ~ret.arg._asPercentage) =>
    /\ ~ret.threw
    /\ IF IndexOf(hist.cats, ret.arg.category) = 0 - 1 THEN ret.val = <<>>
       ELSE LET col == LoadedColumn(ret.arg.category)
            IN  /\ DOMAIN ret.val = {col[i] : i \in 1..Len(col)}
                /\ \A item \in DOMAIN ret.val : ret.val[item] = Occurrences(col, item)
                /\ CountsTotal(ret.val, Distinct(col), 1) = Len(col)
                /\ col = <<"A", "B", "A", "C", "A">> =>
                     ret.val = [item \in ItemVals |-> IF item = "A" THEN 3 ELSE 1]

\* the counts of the column [A, B, A, C, A]
C23_Witness ==
  /\ ret.op = "oneWayTable"
  /\ ~ret.arg._asPercentage
  /\ ret.arg.category = "a"
  /\ hist.cols[1] = <<"A", "B", "A", "C", "A">>
  /\ ret.val["A"] = 3

\* C26: after a crossTable or crossTabulation call that returned a result, the nu of
\* the Chi2 instance of the TableAnalysis equals the df of that result, also for a
\* table with one group column or one row.
C26_NuIsDf ==
  (/\ ret.op \in {"crossTable", "crossTabulation"}
   /\ CrossReturned
   /\ ret.val # <<>>) =>
    __chisq._nu = I(ret.val.df)

\* C28: crossTable on a loaded table, two existing columns and a grouping array ends
\* and returns a result, also when a row category has no observation in a group or a
\* value belongs to no group.
C28_CrossTableReturns ==
  (CrossCalled /\ ret.arg.grouping.kind = "array") => CrossReturned

=============================================================================
